---- MODULE Spec2Model ----
(***************************************************************************)
(* hug_core: the Interface construction and invocation pipeline.           *)
(*                                                                         *)
(* A function `def f(a, b)` is described once (Interfaces), bound to one   *)
(* local route (Interface.__init__, Local.__init__) and then called        *)
(* (Local.__call__).  One call is a sequence of steps; every callback the  *)
(* engine invokes (requirement predicate, directive factory, coercer,      *)
(* secondary validator, on_invalid handler, the function, the return       *)
(* transform, a cleanup hook) is user code: its outcome is chosen          *)
(* nondeterministically among returning and raising an Exception.          *)
(*                                                                         *)
(* Values are flat sequences of strings, built by tagging, so that two     *)
(* values are equal exactly when they were built the same way.             *)
(***************************************************************************)
EXTENDS Integers, Sequences, FiniteSets, TLC

\* ------------------------------------------------------------------ bounds
\* calls made on the bound Interface in one behaviour
MaxCalls == 2
\* chain calls made on route configurations in one behaviour
MaxChain == 2
\* requirement predicates configured on a route
MaxRequires == 2
\* annotations, defaults and route options set away from a bare `@local()`
\* on `def f(a, b)` in one configuration
MaxOptions == 2

\* ------------------------------------------------------------------ values
None == <<"None">>
True == <<"True">>
\* an empty mapping: falsy, and not None
Empty == <<>>
\* a value supplied by the caller
Supplied == <<"v">>

Truthy(v) == v /= None /\ v /= Empty /\ v /= <<"False">>

\* an Exception instance, identified by the callback that raised it
Exc(origin) == <<"exception", origin>>

\* the value a failing requirement predicate returns
Lacks(i) == <<"lacks", ToString(i)>>

Ev(kind, detail) == <<kind, detail>>

\* a step that calls a callback, with what the callback was passed
EvWith(kind, detail, passed) == <<kind, detail>> \o passed

Range(s) == {s[i] : i \in 1..Len(s)}

\* the application of a formatter, transform or handler to a value
Tagged(tag, v) == <<tag>> \o v
Outputs(v) == Tagged("output", v)
InvalidOutputs(v) == Tagged("output_invalid", v)

\* ------------------------------------------------- the decorated function
\* def f(a, b): the declared (internal) parameter names, in order
FunctionParameters == <<"a", "b">>

TransformKinds == {"none", "plain", "slotted"}

\* The declarations of f: how many trailing parameters have a default, what
\* each parameter's annotation is, the return annotation ("slotted": one that
\* exposes a `context` attribute) and whether f is `async def`.
Functions ==
    [defaults : 0..Len(FunctionParameters),
     annotations : [Range(FunctionParameters) -> {"none", "directive", "coercer"}],
     returns : TransformKinds,
     is_coroutine : BOOLEAN]

\* Interfaces.__init__: the per-function descriptor
Interfaces(fn) ==
    LET parameters == FunctionParameters
        n == Len(parameters)
    IN  [parameters |-> parameters,
         defaults |-> [p \in {parameters[i] : i \in (n - fn.defaults + 1)..n}
                          |-> <<"default", p>>],
         required |-> SubSeq(parameters, 1, n - fn.defaults),
         all_parameters |-> Range(parameters),
         transform |-> fn.returns,
         directives |-> {p \in Range(parameters) : fn.annotations[p] = "directive"},
         input_transformations |->
             SelectSeq(parameters, LAMBDA p : fn.annotations[p] = "coercer"),
         is_coroutine |-> fn.is_coroutine]

\* ------------------------------------------------------------- the route
\* A rename map is a sequence of <<interface_name, internal_name>> pairs (a
\* dict, in insertion order).
RenameMaps == {<<>>, << <<"x", "a">> >>}

\* The route mappings Local.__init__ is given.  A key that is absent from the
\* mapping is FALSE / "none" / "absent" / 0 / <<>> here.
Routes ==
    [requires : 0..MaxRequires,
     validate : BOOLEAN,
     output : BOOLEAN,
     output_invalid : BOOLEAN,
     transform : TransformKinds,
     raise_on_invalid : BOOLEAN,
     on_invalid : {"absent", "handler", "False"},
     map_params : RenameMaps,
     skip_directives : BOOLEAN,
     skip_validation : BOOLEAN]

\* the names the route's API defines a directive for
ApiDirectives == SUBSET {"b"}

B2N(b) == IF b THEN 1 ELSE 0

\* how many things a configuration sets
Weight(fn, route, api) ==
    fn.defaults
    + Cardinality({p \in Range(FunctionParameters) : fn.annotations[p] /= "none"})
    + B2N(fn.returns /= "none") + B2N(fn.is_coroutine)
    + route.requires + B2N(route.validate) + B2N(route.output)
    + B2N(route.output_invalid) + B2N(route.transform /= "none")
    + B2N(route.raise_on_invalid) + B2N(route.on_invalid /= "absent")
    + Len(route.map_params) + B2N(route.skip_directives)
    + B2N(route.skip_validation) + Cardinality(api)

RenameSeq(s, from, to) == [i \in 1..Len(s) |-> IF s[i] = from THEN to ELSE s[i]]

\* d[to] = d.pop(from), when `from` is a key of d
RenameKey(d, from, to) ==
    IF from \in DOMAIN d
    THEN [k \in (DOMAIN d \ {from}) \cup {to} |-> IF k = to THEN d[from] ELSE d[k]]
    ELSE d

RenameElem(S, from, to) == IF from \in S THEN (S \ {from}) \cup {to} ELSE S

\* Interface.__init__, the loop over map_params.items(): entry i onwards
\* applied to the record r of defaults, parameters, all_parameters, required
RECURSIVE MapParams(_, _, _)
MapParams(r, map, i) ==
    IF i > Len(map) THEN r
    ELSE LET interface_name == map[i][1]
             internal_name == map[i][2]
         IN  MapParams(
                 [defaults |-> RenameKey(r.defaults, internal_name, interface_name),
                  parameters |-> RenameSeq(r.parameters, internal_name, interface_name),
                  all_parameters |->
                      RenameElem(r.all_parameters, internal_name, interface_name),
                  required |-> RenameSeq(r.required, internal_name, interface_name)],
                 map, i + 1)

\* reverse_mapping.get(name, name): the last entry naming `name` as internal
ReverseMapping(map, name) ==
    LET hits == {i \in 1..Len(map) : map[i][2] = name}
    IN  IF hits = {} THEN name
        ELSE map[CHOOSE i \in hits : \A j \in hits : j <= i][1]

\* the API's directive kept for a name the annotations declare one for too
Directives_ApiFirst(used_directives, declared) ==
    [p \in used_directives \cup declared |->
        IF p \in used_directives THEN "api" ELSE "annotation"]

\* Interface.__init__, lines 238-243: self.directives, each name with the
\* factory it maps to; update() lets the descriptor's entry replace the API's
Directives(used_directives, declared) ==
    [p \in used_directives \cup declared |->
        IF p \in declared THEN "annotation" ELSE "api"]

\* Interface.__init__ and Local.__init__: the bound Interface
Local(route, desc, api) ==
    LET renamed == MapParams([defaults |-> desc.defaults,
                              parameters |-> desc.parameters,
                              all_parameters |-> desc.all_parameters,
                              required |-> desc.required],
                             route.map_params, 1)
        transform == IF route.transform /= "none" THEN route.transform
                     ELSE desc.transform
        used_directives == Range(renamed.parameters) \cap api
    IN  [requires |-> route.requires,
         validate_function |-> route.validate,
         invalid_outputs |-> route.output_invalid,
         outputs |-> route.output,
         defaults |-> renamed.defaults,
         parameters |-> renamed.parameters,
         all_parameters |-> renamed.all_parameters,
         required |-> renamed.required,
         map_params |-> route.map_params,
         input_transformations |->
             [i \in 1..Len(desc.input_transformations) |->
                 ReverseMapping(route.map_params, desc.input_transformations[i])],
         transform |-> transform,
         raise_on_invalid |-> route.raise_on_invalid,
         on_invalid |-> IF route.on_invalid /= "absent" THEN route.on_invalid
                        ELSE transform,
         directives |-> Directives(used_directives, desc.directives),
         skip_directives |-> route.skip_directives,
         skip_validation |-> route.skip_validation,
         is_coroutine |-> desc.is_coroutine]

\* Interface._rewrite_params: entry i onwards applied to the mapping params
RECURSIVE RewriteParams(_, _, _)
RewriteParams(params, map, i) ==
    IF i > Len(map) THEN params
    ELSE RewriteParams(RenameKey(params, map[i][1], map[i][2]), map, i + 1)

_rewrite_params(params, map) == RewriteParams(params, map, 1)

\* ------------------------------------------------------- per-call helpers
\* a dict, as a function: d[k] = v
Set(d, k, v) == [x \in DOMAIN d \cup {k} |-> IF x = k THEN v ELSE d[x]]

\* the error mapping is a dict in insertion order: a sequence of <<key, message>>
ErrorKeys(errs) == {errs[i][1] : i \in 1..Len(errs)}

SetError(errs, k, message) ==
    IF k \in ErrorKeys(errs)
    THEN [i \in 1..Len(errs) |-> IF errs[i][1] = k THEN <<k, message>> ELSE errs[i]]
    ELSE Append(errs, <<k, message>>)

\* "Required parameter '{}' not supplied".format(require)
RequiredMessage(require) == <<"Required parameter '", require, "' not supplied">>

RECURSIVE Flatten(_)
Flatten(errs) ==
    IF errs = <<>> THEN <<>>
    ELSE <<errs[1][1]>> \o errs[1][2] \o Flatten(Tail(errs))

\* {"errors": errors}
WrapErrors(errs) == <<"errors">> \o Flatten(errs)

\* what a directive factory returns for parameter p: a value that exposes a
\* cleanup hook or one that does not; it records the factory that made it and
\* whether the parameter's default was passed to it
DirectiveValue(hooked, p, origin, with_default) ==
    <<IF hooked THEN "directive+cleanup" ELSE "directive", p, origin,
      IF with_default THEN "default" ELSE "no default">>

\* hasattr(directive, "cleanup")
HasCleanup(v) == Len(v) > 0 /\ v[1] = "directive+cleanup"

Hooks(params) == {k \in DOMAIN params : HasCleanup(params[k])}

Coerced(v) == Tagged("coerced", v)

\* the outcomes of one evaluation of a requirement predicate: True, a falsy
\* value, a truthy value that is not True, an Exception
Conclusions == {"True", "falsy", "lacks", "raise"}

Passes(conclusion) == conclusion \in {"True", "falsy"}

\* check_requirements going on through the predicates after one has failed
check_requirements_NoShortCircuit(cs) ==
    LET stops == {i \in DOMAIN cs : ~Passes(cs[i])}
        stop == IF stops = {} THEN 0
                ELSE CHOOSE i \in stops : \A j \in stops : i <= j
    IN  [evaluated |-> Len(cs),
         raised |-> stop /= 0 /\ cs[stop] = "raise",
         conclusion |-> IF stop = 0 THEN None
                        ELSE IF cs[stop] = "lacks" THEN Lacks(stop)
                        ELSE Exc("requirement")]

\* Interface.check_requirements, given what each predicate would conclude:
\* how many predicates it evaluates, and what it returns or raises
check_requirements(cs) ==
    LET stops == {i \in DOMAIN cs : ~Passes(cs[i])}
        stop == IF stops = {} THEN 0
                ELSE CHOOSE i \in stops : \A j \in stops : i <= j
    IN  [evaluated |-> IF stop = 0 THEN Len(cs) ELSE stop,
         raised |-> stop /= 0 /\ cs[stop] = "raise",
         conclusion |-> IF stop = 0 THEN None
                        ELSE IF cs[stop] = "lacks" THEN Lacks(stop)
                        ELSE Exc("requirement")]

\* asyncio_call that never drives the coroutine to completion
asyncio_call_NeverRuns(running, outcome) == "awaitable"

\* asyncio_call: with a running loop the coroutine function is only called,
\* which makes an awaitable and runs nothing of its body; otherwise the body
\* runs to completion and its outcome is the call's
asyncio_call(running, outcome) == IF running THEN "awaitable" ELSE outcome

\* Interfaces.__call__
InterfacesCall(is_coroutine, running, outcome) ==
    IF ~is_coroutine THEN outcome ELSE asyncio_call(running, outcome)

----------------------------------------------------------------------------
VARIABLES
    interface,          \* the bound Local interface
    pc,                 \* where the current call is
    args, keywords,     \* the call as made: positional values, keyword names
    kwargs,             \* the call's mapping of names to values
    loop_running,       \* what loop.is_running() answered in this call
    context,            \* the context the factory returned for this call
    index, todo,        \* loop positions
    errors,             \* validate()'s error mapping
    result, exception,  \* of the function / transform
    body,               \* of the function: "idle", "pending", "returned", "raised"
    returned,           \* what the caller observes when the call ends
    exit,               \* the way the call ended
    log,                \* the steps of this call, in order
    teardowns,          \* the arguments of this call's delete_context calls
    transform_context,  \* the `context` attribute of the transform object
    factory_calls, teardown_calls,  \* over all calls
    calls,              \* calls started
    designated,         \* calls ended in one of the four designated ways
    configs,            \* the `route` mapping of each route configuration object
    made,               \* the `route` mapping each object was constructed with
    chain,              \* the chain calls made: call k made configuration k + 1
    function,           \* the decorated function object and its `interface` attribute
    built,              \* how many times Interfaces(function, ...) was constructed
    bound,              \* the Interfaces bound to the function, in order
    threads,            \* the calls that threads are making at the same time
    transformers,       \* the annotation mapping a descriptor is built from
    annotated,          \* that mapping as it was when the descriptor was built
    described,          \* the directives and input_transformations built from it
    handled             \* the handler validate() invoked for a name

\* the route configurations
routing == <<configs, made, chain>>

\* the bound Interface and its calls
pipeline == <<interface, pc, args, keywords, kwargs, loop_running, context, index, todo,
              errors, result, exception, body, returned, exit, log, teardowns,
              transform_context, factory_calls, teardown_calls, calls, designated>>

\* the decorations of the function
binding == <<function, built, bound>>

\* calls made by several threads at once
concurrent == <<threads>>

\* the classification of annotations
probing == <<transformers, annotated, described, handled>>

vars == <<pipeline, routing, binding, concurrent, probing>>

\* what no action of a call changes
fixed == <<interface, args, keywords, context, factory_calls, calls, routing, binding,
          concurrent, probing>>

\* no chain call was made
NoChain == <<>>

\* def f(a, b) with no annotation, and the route of `local()`
BareFunction ==
    [defaults |-> 0, annotations |-> [p \in Range(FunctionParameters) |-> "none"],
     returns |-> "none", is_coroutine |-> FALSE]

BareRoute ==
    [requires |-> 0, validate |-> FALSE, output |-> FALSE, output_invalid |-> FALSE,
     transform |-> "none", raise_on_invalid |-> FALSE, on_invalid |-> "absent",
     map_params |-> <<>>, skip_directives |-> FALSE, skip_validation |-> FALSE]

\* a function object that has no `interface` attribute yet
Undecorated(fn) == [spec |-> fn, interface |-> <<>>]

\* ---- the descriptor cache, Interface.__init__, lines 162-166
\* route.get("args"): no mapping, or the annotation mapping
\* {"a": <a coercer>, "return": <a transform>}
NoArgs == [given |-> FALSE, annotations |-> BareFunction.annotations, returns |-> "none"]

Args ==
    {NoArgs,
     [given |-> TRUE,
      annotations |-> [p \in Range(FunctionParameters) |->
                          IF p = "a" THEN "coercer" ELSE "none"],
      returns |-> "plain"]}

\* Interfaces.__init__, lines 96-99: transformers = args if args is not None
\* else self.spec.__annotations__
Interfaces_args(fn, given) ==
    Interfaces(IF given.given
               THEN [fn EXCEPT !.annotations = given.annotations,
                               !.returns = given.returns]
               ELSE fn)

\* the test for a cached descriptor answering no every time
hasattr_interface_Never(f) == FALSE

\* hasattr(function, "interface")
hasattr_interface(f) == f.interface /= <<>>

\* lines 163-166: function.interface, built from function_args if it is not there
Described(f, given) ==
    IF hasattr_interface(f) THEN f.interface[1]
    ELSE Interfaces_args(f.spec, given)

\* Local(route, function) on the function object f: the Interface it makes,
\* the function object afterwards, and whether a descriptor was constructed.
\* `defaults` and `all_parameters` of the Interface are the descriptor's own
\* dict and set, which the loop over map_params changes.
Decorate(f, route, given, api) ==
    LET desc == Described(f, given)
        local == Local(route, desc, api)
    IN  [local |-> local,
         function |-> [f EXCEPT !.interface =
                          <<[desc EXCEPT !.defaults = local.defaults,
                                         !.all_parameters = local.all_parameters]>>],
         constructed |-> IF hasattr_interface(f) THEN 0 ELSE 1]

\* what one decoration leaves on record
Bound(d, nth, route, given, target, api) ==
    [local |-> d.local, descriptor |-> nth, route |-> route, args |-> given,
     target |-> target, api |-> api]

\* no annotation mapping is being looked at
Unprobed ==
    /\ transformers = <<>>
    /\ annotated = <<>>
    /\ described = <<>>
    /\ handled = <<>>

\* no call of the Interface was made
Idle ==
    /\ pc = "idle"
    /\ args = <<>>
    /\ keywords = {}
    /\ kwargs = <<>>
    /\ loop_running = FALSE
    /\ context = 0
    /\ index = 0
    /\ todo = {}
    /\ errors = <<>>
    /\ result = None
    /\ exception = None
    /\ body = "idle"
    /\ returned = [kind |-> "none", value |-> None]
    /\ exit = "none"
    /\ log = <<>>
    /\ teardowns = <<>>
    /\ transform_context = 0
    /\ factory_calls = 0
    /\ teardown_calls = 0
    /\ calls = 0
    /\ designated = 0
    /\ threads = <<>>

Init ==
    /\ \E fn \in Functions, route \in Routes, api \in ApiDirectives :
          /\ Weight(fn, route, api) <= MaxOptions
          /\ LET d == Decorate(Undecorated(fn), route, NoArgs, api)
             IN  /\ interface = d.local
                 /\ function = d.function
                 /\ bound = <<Bound(d, 1, route, NoArgs, 0, api)>>
    /\ built = 1
    /\ Idle
    /\ Unprobed
    /\ configs = <<>>
    /\ made = <<>>
    /\ chain = NoChain

\* the four ways of ending a call that Local.__call__ handles itself
Designated == {"success", "lacks_requirement", "invalid", "exception"}

\* the teardown called with errors and lacks_requirement given each other's value
delete_context_Mixed(exc, errs, lacks) ==
    /\ teardowns' = Append(teardowns,
            [context |-> context, exception |-> exc, errors |-> lacks,
             lacks_requirement |-> errs])
    /\ teardown_calls' = teardown_calls + 1

\* self.api.delete_context(context, exception=..., errors=..., lacks_requirement=...)
delete_context(exc, errs, lacks) ==
    /\ teardowns' = Append(teardowns,
            [context |-> context, exception |-> exc, errors |-> errs,
             lacks_requirement |-> lacks])
    /\ teardown_calls' = teardown_calls + 1

\* the call returns `value` to its caller
Return(value, how) ==
    /\ returned' = [kind |-> "returned", value |-> value]
    /\ exit' = how
    /\ designated' = designated + 1
    /\ pc' = "done"

\* the except clause raising an exception of its own in place of the one caught
Raise_Wrapped(exc) ==
    /\ returned' = [kind |-> "raised", value |-> Exc("wrapped")]
    /\ exit' = "exception"
    /\ designated' = designated + 1
    /\ pc' = "done"

\* the call raises exc from its except clause, after cleanup and teardown
Raise(exc) ==
    /\ returned' = [kind |-> "raised", value |-> exc]
    /\ exit' = "exception"
    /\ designated' = designated + 1
    /\ pc' = "done"

\* an exception raised by a callback outside the try block leaves the call
Escape(exc) ==
    /\ returned' = [kind |-> "raised", value |-> exc]
    /\ exit' = "escaped"
    /\ pc' = "done"
    /\ UNCHANGED <<designated, teardowns, teardown_calls>>

\* return self.outputs(value) if self.outputs else value
Format(value) == IF interface.outputs THEN Outputs(value) ELSE value

FormatEvents == IF interface.outputs THEN <<Ev("output", "outputs")>> ELSE <<>>

\* the call goes on: nothing is returned and nothing torn down in this step
Continue == UNCHANGED <<returned, exit, designated, teardowns, teardown_calls>>

\* validate(), or straight to the function when validation is skipped
ToValidation ==
    IF interface.skip_validation
    THEN pc' = "invoke" /\ index' = 0 /\ todo' = {}
    ELSE IF Len(interface.input_transformations) > 0
    THEN pc' = "coerce" /\ index' = 1 /\ todo' = {}
    ELSE pc' = "required" /\ index' = 0 /\ todo' = {}

\* the loop over self.directives entered whatever the route said
ToDirectives_Always ==
    IF DOMAIN interface.directives /= {}
    THEN pc' = "directives" /\ index' = 0 /\ todo' = DOMAIN interface.directives
    ELSE ToValidation

\* the loop over self.directives, unless directives are skipped
ToDirectives ==
    IF ~interface.skip_directives /\ DOMAIN interface.directives /= {}
    THEN pc' = "directives" /\ index' = 0 /\ todo' = DOMAIN interface.directives
    ELSE ToValidation

\* Local.__call__, line 389: a caller calls the Interface with up to one
\* positional argument too many and any keyword arguments among its
\* parameters; the context factory makes the call's context
Call ==
    /\ pc \in {"idle", "done"}
    /\ calls < MaxCalls
    /\ \E n \in 0..(Len(interface.parameters) + 1),
          S \in SUBSET Range(interface.parameters) :
          /\ args' = [i \in 1..n |-> Supplied]
          /\ keywords' = S
          /\ kwargs' = [k \in S |-> Supplied]
    /\ calls' = calls + 1
    /\ factory_calls' = factory_calls + 1
    /\ context' = factory_calls + 1
    /\ log' = <<Ev("context_factory", "")>>
    /\ IF interface.requires > 0
       THEN pc' = "requirements" /\ index' = 1
       ELSE pc' = "bind" /\ index' = 0
    /\ todo' = {}
    /\ errors' = <<>>
    /\ result' = None
    /\ exception' = None
    /\ body' = "idle"
    /\ loop_running' = FALSE
    /\ returned' = [kind |-> "none", value |-> None]
    /\ exit' = "none"
    /\ teardowns' = <<>>
    /\ UNCHANGED <<interface, transform_context, teardown_calls, designated, routing,
                   binding, concurrent, probing>>

\* Local.__call__, lines 392-396: one iteration of `for _requirement in
\* self.requires`, which is one call of check_requirements
CheckRequirements ==
    /\ pc = "requirements"
    /\ \E cs \in [1..interface.requires -> Conclusions] :
          LET r == check_requirements(cs)
              evaluations == [i \in 1..r.evaluated |->
                                 EvWith("requirement", ToString(i), <<ToString(context)>>)]
          IN  IF r.raised
              THEN /\ log' = log \o evaluations
                   /\ Escape(r.conclusion)
                   /\ UNCHANGED index
              ELSE IF Truthy(r.conclusion)
              THEN /\ log' = log \o evaluations
                             \o <<Ev("teardown", "lacks_requirement")>> \o FormatEvents
                   /\ delete_context(None, None, r.conclusion)
                   /\ Return(Format(r.conclusion), "lacks_requirement")
                   /\ UNCHANGED index
              ELSE /\ log' = log \o evaluations
                   /\ IF index < interface.requires
                      THEN pc' = "requirements" /\ index' = index + 1
                      ELSE pc' = "bind" /\ index' = 0
                   /\ Continue
    /\ UNCHANGED <<fixed, kwargs, loop_running, todo, errors, result, exception, body,
                   transform_context>>

\* Local.__call__, lines 398-399: kwargs[self.parameters[index]] = argument
BindArguments ==
    /\ pc = "bind"
    /\ IF Len(args) > Len(interface.parameters)
       THEN /\ Escape(Exc("IndexError"))
            /\ UNCHANGED <<kwargs, index, todo>>
       ELSE /\ kwargs' = [k \in DOMAIN kwargs
                                  \cup {interface.parameters[i] : i \in 1..Len(args)} |->
                            IF \E i \in 1..Len(args) : interface.parameters[i] = k
                            THEN args[CHOOSE i \in 1..Len(args) :
                                          interface.parameters[i] = k]
                            ELSE kwargs[k]]
            /\ ToDirectives
            /\ Continue
    /\ log' = Append(log, Ev("bind", ""))
    /\ UNCHANGED <<fixed, loop_running, errors, result, exception, body,
                   transform_context>>

\* Local.__call__, lines 401-412: one parameter of self.directives
InjectDirective ==
    /\ pc = "directives"
    /\ \E parameter \in todo :
          /\ IF parameter \in DOMAIN kwargs
             THEN /\ UNCHANGED <<kwargs, log>>
                  /\ IF todo = {parameter}
                     THEN ToValidation
                     ELSE todo' = todo \ {parameter} /\ UNCHANGED <<pc, index>>
                  /\ Continue
             ELSE /\ log' = Append(log, EvWith("directive", parameter,
                                <<interface.directives[parameter],
                                  IF parameter \in DOMAIN interface.defaults
                                  THEN "default" ELSE "no default",
                                  ToString(context)>>))
                  /\ \E outcome \in {"plain", "hooked", "raise"} :
                        IF outcome = "raise"
                        THEN /\ Escape(Exc("directive"))
                             /\ UNCHANGED <<kwargs, index, todo>>
                        ELSE /\ kwargs' = Set(kwargs, parameter,
                                    DirectiveValue(outcome = "hooked", parameter,
                                        interface.directives[parameter],
                                        parameter \in DOMAIN interface.defaults))
                             /\ IF todo = {parameter}
                                THEN ToValidation
                                ELSE todo' = todo \ {parameter} /\ UNCHANGED <<pc, index>>
                             /\ Continue
    /\ UNCHANGED <<fixed, loop_running, errors, result, exception, body,
                   transform_context>>

\* the handler invoked without the context in the first place
initialize_handler_NoContext(type_error, passed) == <<"none">>

\* Interface.initialize_handler: handler(value, context=context), and
\* handler(value) after a TypeError of that invocation (a handler that takes
\* no context raises one; so may one that takes it)
initialize_handler(type_error, passed) ==
    IF ~type_error THEN <<passed>> ELSE <<passed, "TypeError", "none">>

\* the ways the last invocation of a coercer fails: InvalidTypeData with
\* reasons or without, another exception with arguments or without
Failures == {"InvalidTypeData.reasons", "InvalidTypeData", "Exception.args", "Exception"}

\* every failure reported by its string form
Message_Str(failure) == <<"str(error)">>

\* Interface.validate, lines 273-279: error.reasons or str(error);
\* error.args[0] if error.args, else str(error)
Message(failure) ==
    CASE failure = "InvalidTypeData.reasons" -> <<"error.reasons">>
      [] failure = "InvalidTypeData" -> <<"str(error)">>
      [] failure = "Exception.args" -> <<"error.args[0]">>
      [] failure = "Exception" -> <<"str(error)">>

\* coercer exceptions collected whatever the route says
Collects_Always == TRUE

\* Interface.validate, line 262: `if self.raise_on_invalid:` has no try
Collects == ~interface.raise_on_invalid

\* Interface.validate, lines 261-279: one entry of self.input_transformations
Coerce ==
    /\ pc = "coerce"
    /\ LET key == interface.input_transformations[index]
           next == IF index < Len(interface.input_transformations)
                   THEN pc' = "coerce" /\ index' = index + 1
                   ELSE pc' = "required" /\ index' = 0
       IN  IF key \notin DOMAIN kwargs
           THEN /\ next
                /\ Continue
                /\ UNCHANGED <<kwargs, errors, log>>
           ELSE \E type_error \in BOOLEAN, outcome \in {"value"} \cup Failures :
                /\ log' = Append(log, EvWith("coerce", key,
                                initialize_handler(type_error, ToString(context))
                                \o <<outcome>>))
                /\ IF outcome = "value"
                      THEN /\ kwargs' = Set(kwargs, key, Coerced(kwargs[key]))
                           /\ next
                           /\ Continue
                           /\ UNCHANGED errors
                      ELSE IF ~Collects
                      THEN /\ Escape(Exc("coercer"))
                           /\ UNCHANGED <<kwargs, errors, index>>
                      ELSE /\ errors' = SetError(errors, key, Message(outcome))
                           /\ next
                           /\ Continue
                           /\ UNCHANGED kwargs
    /\ UNCHANGED <<fixed, loop_running, todo, result, exception, body,
                   transform_context>>

\* the loop over self.required left at the first name that is missing
RequiredErrors_FirstOnly(errs, required, input_parameters) ==
    LET missing == SelectSeq(required, LAMBDA require : require \notin DOMAIN input_parameters)
    IN  IF missing = <<>> THEN errs
        ELSE SetError(errs, missing[1], RequiredMessage(missing[1]))

\* Interface.validate, lines 280-282: errors[require] for each name missing
RequiredErrors(errs, required, input_parameters) ==
    LET missing == SelectSeq(required, LAMBDA require : require \notin DOMAIN input_parameters)
        RECURSIVE Add(_, _)
        Add(e, j) == IF j > Len(missing) THEN e
                     ELSE Add(SetError(e, missing[j], RequiredMessage(missing[j])), j + 1)
    IN  Add(errs, 1)

\* the secondary validator called whatever errors there are
SecondaryApplies_Always(errs) == interface.validate_function

\* Interface.validate, line 283: not errors and getattr(self,
\* "validate_function", False)
SecondaryApplies(errs) == errs = <<>> /\ interface.validate_function

\* a mapping written out, name by name, to tell what a callback was passed
Flat(d) ==
    LET names == <<"a", "b", "x", "y">>
        RECURSIVE From(_)
        From(i) == IF i > Len(names) THEN <<>>
                   ELSE (IF names[i] \in DOMAIN d THEN <<names[i]>> \o d[names[i]]
                         ELSE <<>>) \o From(i + 1)
    IN  From(1)

\* Interface.validate, lines 280-285, and Local.__call__, line 416
CheckRequired ==
    /\ pc = "required"
    /\ errors' = RequiredErrors(errors, interface.required, kwargs)
    /\ log' = Append(log, Ev("required", ""))
    /\ pc' = IF SecondaryApplies(errors') THEN "validator"
             ELSE IF errors' /= <<>> THEN "invalid"
             ELSE "invoke"
    /\ Continue
    /\ UNCHANGED <<fixed, kwargs, loop_running, index, todo, result, exception, body,
                   transform_context>>

\* Interface.validate, line 284: errors = self.validate_function(input_parameters)
SecondaryValidate ==
    /\ pc = "validator"
    /\ log' = Append(log, EvWith("validate_function", "", Flat(kwargs)))
    /\ \E outcome \in {"falsy", "errors", "raise"} :
          CASE outcome = "falsy" ->
                  /\ pc' = "invoke"
                  /\ Continue
                  /\ UNCHANGED errors
            [] outcome = "errors" ->
                  /\ errors' = << <<"validate", <<"rejected">> >> >>
                  /\ pc' = "invalid"
                  /\ Continue
            [] outcome = "raise" ->
                  /\ Escape(Exc("validate_function"))
                  /\ UNCHANGED errors
    /\ UNCHANGED <<fixed, kwargs, loop_running, index, todo, result, exception, body,
                   transform_context>>

\* what calling a handler or transform can do: return the value it makes of
\* its argument, return an empty value, raise
HandlerOutcomes == {"value", "empty", "raise"}

\* getattr(self, "on_invalid", False) is a handler to call
OnInvalidApplies == interface.on_invalid \notin {"none", "False"}

\* self.on_invalid(errors), when the handler returns
OnInvalid(outcome, wrapped) ==
    IF outcome = "empty" THEN Empty
    ELSE Tagged(IF interface.on_invalid = "handler" THEN "on_invalid" ELSE "transform",
                wrapped)

\* the normal output formatter taking precedence over the invalid-output one
FormatInvalid_OutputsFirst(errs) ==
    IF interface.outputs THEN Outputs(errs)
    ELSE IF interface.invalid_outputs THEN InvalidOutputs(errs) ELSE errs

\* outputs = getattr(self, "invalid_outputs", self.outputs);
\* outputs(errors) if outputs else errors
FormatInvalid(errs) ==
    IF interface.invalid_outputs THEN InvalidOutputs(errs) ELSE Format(errs)

FormatInvalidEvents ==
    IF interface.invalid_outputs THEN <<Ev("output", "invalid_outputs")>>
    ELSE FormatEvents

\* Local.__call__, lines 416-422: validate() returned errors
Invalid ==
    /\ pc = "invalid"
    /\ IF ~OnInvalidApplies
       THEN /\ log' = log \o <<Ev("teardown", "errors")>> \o FormatInvalidEvents
            /\ delete_context(None, WrapErrors(errors), None)
            /\ Return(FormatInvalid(WrapErrors(errors)), "invalid")
       ELSE \E outcome \in HandlerOutcomes :
               IF outcome = "raise"
               THEN /\ log' = Append(log, Ev("on_invalid", ""))
                    /\ Escape(Exc("on_invalid"))
               ELSE /\ log' = log \o <<Ev("on_invalid", ""), Ev("teardown", "errors")>>
                                  \o FormatInvalidEvents
                    /\ delete_context(None, OnInvalid(outcome, WrapErrors(errors)), None)
                    /\ Return(FormatInvalid(OnInvalid(outcome, WrapErrors(errors))),
                              "invalid")
    /\ UNCHANGED <<fixed, kwargs, loop_running, index, todo, errors, result, exception,
                   body, transform_context>>

\* Local.__call__, lines 424-426 and 431: the parameter rename reversal and
\* self.interface(**kwargs)
Invoke ==
    /\ pc = "invoke"
    /\ kwargs' = _rewrite_params(kwargs, interface.map_params)
    /\ todo' = Hooks(kwargs')
    /\ log' = log \o <<Ev("rewrite", ""), Ev("function", "")>>
    /\ \E running \in (IF interface.is_coroutine THEN BOOLEAN ELSE {FALSE}),
          outcome \in {"return", "raise"} :
          /\ loop_running' = running
          /\ LET got == InterfacesCall(interface.is_coroutine, running, outcome)
                 next == IF interface.transform /= "none" THEN "transform" ELSE "cleanup"
             IN  CASE got = "awaitable" ->
                         /\ body' = "pending"
                         /\ result' = <<"awaitable">>
                         /\ pc' = next
                         /\ UNCHANGED exception
                   [] got = "return" ->
                         /\ body' = "returned"
                         /\ result' = <<"result">>
                         /\ pc' = next
                         /\ UNCHANGED exception
                   [] got = "raise" ->
                         /\ body' = "raised"
                         /\ exception' = Exc("function")
                         /\ pc' = "cleanup"
                         /\ UNCHANGED result
    /\ Continue
    /\ UNCHANGED <<fixed, index, errors, transform_context>>

\* the transform's context slot left as the call found it
SetSlot_Never(kind, held, passed) == held

\* Local.__call__, lines 428-429: if hasattr(self.transform, "context"):
\* self.transform.context = context
SetSlot(kind, held, passed) == IF kind = "slotted" THEN passed ELSE held

\* Local.__call__, lines 427-431: the return transform
Transform ==
    /\ pc = "transform"
    /\ transform_context' = SetSlot(interface.transform, transform_context, context)
    /\ log' = Append(log, Ev("transform", ""))
    /\ \E outcome \in {"value", "raise"} :
          IF outcome = "value"
          THEN result' = Tagged("transform", result) /\ UNCHANGED exception
          ELSE exception' = Exc("transform") /\ UNCHANGED result
    /\ pc' = "cleanup"
    /\ Continue
    /\ UNCHANGED <<fixed, kwargs, loop_running, index, todo, errors, body>>

\* Interface.cleanup_parameters: directive.cleanup(exception=exception) of one
\* argument that has the hook
CleanupHook ==
    /\ pc = "cleanup"
    /\ \E parameter \in todo, outcome \in {"return", "raise"} :
          /\ log' = Append(log, Ev("cleanup", IF exception = None THEN "None"
                                              ELSE exception[2]))
          /\ IF outcome = "raise"
             THEN Escape(Exc("cleanup")) /\ UNCHANGED todo
             ELSE todo' = todo \ {parameter} /\ UNCHANGED pc /\ Continue
    /\ UNCHANGED <<fixed, kwargs, loop_running, index, errors, result, exception, body,
                   transform_context>>

\* the except clause re-raising without the context teardown
ExitException_NoTeardown ==
    /\ pc = "cleanup"
    /\ todo = {}
    /\ exception /= None
    /\ log' = log
    /\ Raise(exception)
    /\ UNCHANGED <<fixed, kwargs, loop_running, index, todo, errors, result, exception,
                   body, transform_context, teardowns, teardown_calls>>

\* Local.__call__, lines 432-434: after cleanup, teardown and re-raise
ExitException ==
    /\ pc = "cleanup"
    /\ todo = {}
    /\ exception /= None
    /\ log' = Append(log, Ev("teardown", "exception"))
    /\ delete_context(exception, None, None)
    /\ Raise(exception)
    /\ UNCHANGED <<fixed, kwargs, loop_running, index, todo, errors, result, exception,
                   body, transform_context>>

\* the success path formatting the result before the context teardown
ExitSuccess_FormatFirst ==
    /\ pc = "cleanup"
    /\ todo = {}
    /\ exception = None
    /\ log' = log \o FormatEvents \o <<Ev("teardown", "none")>>
    /\ delete_context(None, None, None)
    /\ Return(Format(result), "success")
    /\ UNCHANGED <<fixed, kwargs, loop_running, index, todo, errors, result, exception,
                   body, transform_context>>

\* Local.__call__, lines 435-437: after cleanup, teardown and return
ExitSuccess ==
    /\ pc = "cleanup"
    /\ todo = {}
    /\ exception = None
    /\ log' = log \o <<Ev("teardown", "none")>> \o FormatEvents
    /\ delete_context(None, None, None)
    /\ Return(Format(result), "success")
    /\ UNCHANGED <<fixed, kwargs, loop_running, index, todo, errors, result, exception,
                   body, transform_context>>

\* The caller of a call that returned the awaitable itself awaits it: only
\* now does the body of the coroutine function run, and return or raise.
Await ==
    /\ pc = "done"
    /\ body = "pending"
    /\ returned = [kind |-> "returned", value |-> <<"awaitable">>]
    /\ \E outcome \in {"returned", "raised"} : body' = outcome
    /\ UNCHANGED <<fixed, pc, kwargs, loop_running, index, todo, errors, result,
                   exception, returned, exit, log, teardowns, transform_context,
                   teardown_calls, designated>>

Next ==
    \/ Call
    \/ CheckRequirements
    \/ BindArguments
    \/ InjectDirective
    \/ Coerce
    \/ CheckRequired
    \/ SecondaryValidate
    \/ Invalid
    \/ Invoke
    \/ Transform
    \/ CleanupHook
    \/ ExitException
    \/ ExitSuccess
    \/ Await

Spec == Init /\ [][Next]_vars

----------------------------------------------------------------------------
\* routing.py: route configurations and their chain methods.  A `route`
\* mapping is a function from the keys it holds to their values; a route
\* configuration object is a position in `configs`.

\* dict.get(k, default)
Get(d, k, default) == IF k \in DOMAIN d THEN d[k] ELSE default

\* d.update(e)
Update(d, e) == [k \in DOMAIN d \cup DOMAIN e |-> IF k \in DOMAIN e THEN e[k] ELSE d[k]]

\* d without the keys K
Without(d, K) == [k \in DOMAIN d \ K |-> d[k]]

\* {k: v}
Entry(k, v) == [x \in {k} |-> v]

\* Router.__init__: the route made of the keyword arguments kw
Router(kw) ==
    LET kept == {k \in DOMAIN kw :
                    \/ k = "transform" /\ kw[k] /= None
                    \/ /\ k \in {"output", "validate", "api", "requires", "map_params", "args"}
                       /\ Truthy(kw[k])}
    IN  [k \in kept |-> kw[k]]

\* on_invalid kept only when it is truthy
InternalValidation_Truthy(kw) ==
    LET own == {"raise_on_invalid", "on_invalid", "output_invalid"}
        kept == {k \in DOMAIN kw \cap own :
                    IF k = "output_invalid" THEN kw[k] /= None ELSE Truthy(kw[k])}
    IN  Update(Router(Without(kw, own)), [k \in kept |-> kw[k]])

\* InternalValidation.__init__
InternalValidation(kw) ==
    LET own == {"raise_on_invalid", "on_invalid", "output_invalid"}
        kept == {k \in DOMAIN kw \cap own :
                    IF k = "raise_on_invalid" THEN Truthy(kw[k]) ELSE kw[k] /= None}
    IN  Update(Router(Without(kw, own)), [k \in kept |-> kw[k]])

\* LocalRouter.__init__(directives=True, validate=True, version=None, **kwargs)
LocalRouter(kw) ==
    LET own == {"directives", "validate", "version"}
        flags == {k \in {"skip_directives", "skip_validation", "version"} :
                    \/ k = "version" /\ Get(kw, "version", None) /= None
                    \/ k = "skip_directives" /\ ~Truthy(Get(kw, "directives", True))
                    \/ k = "skip_validation" /\ ~Truthy(Get(kw, "validate", True))}
    IN  Update(InternalValidation(Without(kw, own)),
               [k \in flags |-> IF k = "version" THEN kw["version"] ELSE True])

\* where written without the copy: the overrides go into the receiver's route
where_InPlace(route, overrides) ==
    [receiver |-> Update(route, overrides),
     made |-> LocalRouter(Update(route, overrides))]

\* Router.where: route_data = self.route.copy(); route_data.update(overrides);
\* self.__class__(**route_data).  The receiver's route after the call, and
\* the route of the configuration made.
where(route, overrides) ==
    [receiver |-> route,
     made |-> LocalRouter(Update(route, overrides))]

\* requires written to replace the requirements instead of adding to them
requires_Replacing(route, requirements) ==
    where(route, Entry("requires", requirements))

\* Router.requires
requires(route, requirements) ==
    where(route, Entry("requires", Get(route, "requires", <<>>) \o requirements))

\* doesnt_require removing only the first of the requirements given
difference_OfFirst(having, requirements) ==
    Range(having) \ {requirements[1]}

\* set(self.route.get("requires", ())).difference(requirements)
difference(having, requirements) == Range(having) \ Range(requirements)

\* requirements if type(requirements) in (list, tuple) else (requirements,):
\* a requirement given on its own is <<"bare", requirement>> here
Listed(requirements) ==
    IF requirements /= <<>> /\ requirements[1] = "bare" THEN <<requirements[2]>>
    ELSE requirements

\* tuple(S): the elements of a set in some order
Tuples(S) == {t \in [1..Cardinality(S) -> S] : Range(t) = S}

\* the constructor parameters of a local route and what may be given for each
Fields == {"transform", "output", "api", "requires", "map_params", "args",
           "raise_on_invalid", "on_invalid", "output_invalid",
           "directives", "validate", "version"}

Given(field) ==
    CASE field = "transform" -> {<<"t1">>}
      [] field = "output" -> {<<"o1">>, None}
      [] field = "api" -> {<<"api1">>}
      [] field = "requires" -> {<<"r1">>, <<"r2", "r1">>}
      [] field = "map_params" -> {<<"x", "a">>}
      [] field = "args" -> {<<"a", "coercer">>}
      [] field = "raise_on_invalid" -> {True, <<"False">>}
      [] field = "on_invalid" -> {<<"h1">>, <<"False">>}
      [] field = "output_invalid" -> {<<"oi1">>}
      [] field = "directives" -> {True, <<"False">>}
      [] field = "validate" -> {True, <<"False">>, <<"v1">>}
      [] field = "version" -> {<<"1">>}

\* the keyword arguments a local route is constructed with: none, or one
\* (chain calls make the configurations that set more)
Constructions ==
    {[k \in {} |-> None]} \cup UNION {{Entry(f, given) : given \in Given(f)} : f \in Fields}

\* what a route says of a field: the value it holds for it, or the
\* constructor's default for it
Field(route, field) ==
    CASE field = "directives" ->
            IF "skip_directives" \in DOMAIN route THEN <<"False">> ELSE True
      [] field = "validate" ->
            IF "skip_validation" \in DOMAIN route THEN <<"False">> ELSE True
      [] field = "raise_on_invalid" -> Get(route, field, <<"False">>)
      [] field = "requires" -> Get(route, field, <<>>)
      [] OTHER -> Get(route, field, None)

\* one chain call on configuration i: `w` is what where() made of its route
Chain(i, method, field, given, w) ==
    /\ Len(configs) <= MaxChain
    /\ configs' = Append([configs EXCEPT ![i] = w.receiver], w.made)
    /\ made' = Append(made, w.made)
    /\ chain' = Append(chain, [receiver |-> i, method |-> method, field |-> field,
                                given |-> given])
    /\ UNCHANGED <<pipeline, binding, concurrent, probing>>

\* Router.output, .transform, .api, .map_params; InternalValidation.on_invalid,
\* .output_invalid, .raise_on_invalid; LocalRouter.directives, .validate,
\* .version: each is where(<its field>=<its argument>)
Setter(method) ==
    \E i \in DOMAIN configs, given \in Given(method) :
        Chain(i, method, method, given, where(configs[i], Entry(method, given)))

output == Setter("output")

transform == Setter("transform")

api == Setter("api")

map_params == Setter("map_params")

raise_on_invalid == Setter("raise_on_invalid")

on_invalid == Setter("on_invalid")

output_invalid == Setter("output_invalid")

directives == Setter("directives")

validate == Setter("validate")

version == Setter("version")

\* Router.where called with one override, of a field that has no chain
\* method setting it to what is given
Where ==
    \E i \in DOMAIN configs, field \in {"args", "requires"} :
        \E given \in Given(field) :
            Chain(i, "where", field, given, where(configs[i], Entry(field, given)))

\* Router.requires
Requires ==
    \E i \in DOMAIN configs, given \in Given("requires") :
        Chain(i, "requires", "requires", given, requires(configs[i], given))

\* Router.doesnt_require, given one requirement or a tuple of them
DoesntRequire ==
    \E i \in DOMAIN configs,
       given \in Given("requires") \cup {<<"bare", "r1">>, <<"bare", "r3">>} :
        \E kept \in Tuples(difference(Get(configs[i], "requires", <<>>), Listed(given))) :
            Chain(i, "doesnt_require", "requires", given,
                  where(configs[i], Entry("requires", kept)))

\* a local route is constructed; the function f is bound by a bare route
RouterInit ==
    /\ \E kw \in Constructions :
          /\ configs = <<LocalRouter(kw)>>
          /\ made = <<LocalRouter(kw)>>
    /\ chain = NoChain
    /\ interface = Local(BareRoute, Interfaces(BareFunction), {})
    /\ Idle
    /\ Unprobed
    /\ function = Undecorated(BareFunction)
    /\ built = 0
    /\ bound = <<>>

RouterNext ==
    \/ output
    \/ transform
    \/ validate
    \/ api
    \/ Requires
    \/ DoesntRequire
    \/ map_params
    \/ Where
    \/ raise_on_invalid
    \/ on_invalid
    \/ output_invalid
    \/ directives
    \/ version

RouterSpec == RouterInit /\ [][RouterNext]_vars

----------------------------------------------------------------------------
\* What the log of the current call says.
Kinds == [i \in 1..Len(log) |-> log[i][1]]

HasEvent(kind) == \E i \in 1..Len(log) : log[i][1] = kind

Count(kind) == Cardinality({i \in 1..Len(log) : log[i][1] = kind})

\* the position of the last event of a kind, 0 if there is none
Last(kind) ==
    LET at == {i \in 1..Len(log) : log[i][1] = kind}
    IN  IF at = {} THEN 0 ELSE CHOOSE i \in at : \A j \in at : j <= i

Ended == pc = "done"

\* value holds piece as a contiguous part
Contains(value, piece) ==
    \E k \in 0..(Len(value) - Len(piece)) :
        SubSeq(value, k + 1, k + Len(piece)) = piece

\* C1: every call that ends in one of the four designated ways (the function
\* returned, a requirement failed, validation collected errors, the function
\* or transform raised) has invoked the context factory exactly once and the
\* context teardown exactly once, for the context the factory made; and when
\* all n calls made so far ended in such a way, the factory count and the
\* teardown count are both n.
C1_ContextOncePerDesignatedCall ==
    /\ (Ended /\ exit \in Designated) =>
          /\ Count("context_factory") = 1
          /\ Count("teardown") = 1
          /\ Len(teardowns) = 1
          /\ teardowns[1].context = context
    /\ (pc \in {"idle", "done"} /\ designated = calls) =>
          /\ factory_calls = calls
          /\ teardown_calls = calls

C1_Witness ==
    /\ Ended
    /\ calls = 2
    /\ designated = 2
    /\ teardown_calls = 2
    /\ exit = "exception"

\* C2: context teardown is invoked exactly once per call on every exit path
\* of Local.__call__ after the context was created, the exits by an exception
\* of a requirement predicate, a directive factory, a coercer under
\* raise_on_invalid, the secondary validator, the on_invalid handler, a
\* cleanup hook or the binding of too many positional arguments included.
C2_TeardownOnEveryExit == Ended => Len(teardowns) = 1

\* the exits of C2 that the code leaves without a teardown
C2_Witness ==
    /\ Ended
    /\ exit = "escaped"
    /\ returned.value = Exc("requirement")
    /\ teardowns = <<>>

\* the arguments of the call's teardown
Flags == teardowns[1]

\* what the three flags are on the exit paths other than validation failure
C3_OtherPaths ==
    /\ exit \in Designated
    /\ Len(teardowns) = 1
    /\ exit = "success" =>
          /\ Flags.exception = None
          /\ Flags.errors = None
          /\ Flags.lacks_requirement = None
    /\ exit = "lacks_requirement" =>
          /\ Flags.exception = None
          /\ Flags.errors = None
          /\ Flags.lacks_requirement = <<"lacks", log[Last("requirement")][2]>>
          /\ Truthy(Flags.lacks_requirement)
    /\ exit = "exception" =>
          /\ Flags.errors = None
          /\ Flags.lacks_requirement = None
          /\ Flags.exception \in {Exc("function"), Exc("transform")}
          /\ Flags.exception = exception
          /\ Flags.exception = returned.value
    /\ exit = "invalid" =>
          /\ Flags.exception = None
          /\ Flags.lacks_requirement = None
          /\ Flags.errors /= None

SuppliedNames ==
    keywords \cup {interface.parameters[i] : i \in 1..Len(args) \cap 1..Len(interface.parameters)}

\* the names of `required` that are missing after directive injection
Omitted ==
    {r \in Range(interface.required) :
        /\ r \notin SuppliedNames
        /\ interface.skip_directives \/ r \notin DOMAIN interface.directives}

\* C4, as claimed: with validation enabled, every call that omits names of
\* `required` (after directive injection) returns an error mapping that holds
\* "Required parameter '<name>' not supplied" for each of them, and does not
\* invoke the function.  (Calls that a raising callback ended are left out.)
C4_MissingRequiredReturned ==
    (Ended /\ exit /= "escaped" /\ ~interface.skip_validation /\ Omitted /= {}) =>
        /\ returned.kind = "returned"
        /\ \A r \in Omitted : Contains(returned.value, <<r>> \o RequiredMessage(r))
        /\ ~HasEvent("function")

\* C4, amended: with validation enabled, every call that reaches the required-
\* parameter check with names of `required` missing after directive injection
\* has, for each of them, the message in its error mapping and never invokes
\* the function; it ends on the validation-failure path, and unless an
\* on_invalid handler replaces the value it returns {"errors": mapping},
\* rendered by the formatter configured.
C4_MissingRequiredAmended ==
    (HasEvent("required") /\ Omitted /= {}) =>
        /\ ~interface.skip_validation
        /\ \A r \in Omitted : <<r, RequiredMessage(r)>> \in Range(errors)
        /\ ~HasEvent("function")
        /\ pc \in {"invalid", "done"}
        /\ Ended => exit \in {"invalid", "escaped"}
        /\ (Ended /\ exit = "escaped") => returned.value = Exc("on_invalid")
        /\ (Ended /\ exit = "invalid" /\ ~OnInvalidApplies) =>
              /\ returned.kind = "returned"
              /\ \A r \in Omitted :
                    Contains(returned.value, <<"errors">>)
                    /\ Contains(returned.value, <<r>> \o RequiredMessage(r))

C4_Witness ==
    /\ Ended
    /\ exit = "invalid"
    /\ Omitted = {"a", "b"}
    /\ returned.value = <<"errors", "a", "Required parameter '", "a", "' not supplied",
                          "b", "Required parameter '", "b", "' not supplied">>

\* a call in which a directive supplied a required parameter and another is missing
C4_WitnessInjected ==
    /\ Ended
    /\ exit = "invalid"
    /\ Omitted = {"a"}
    /\ "b" \in Range(interface.required)
    /\ "b" \in DOMAIN kwargs
    /\ "b" \notin SuppliedNames

\* the index of the predicate of a requirement event
RequirementAt(i) == CHOOSE n \in 1..interface.requires : log[i][2] = ToString(n)

\* C5: the requirement predicates are evaluated in declaration order; when one
\* returns a truthy value that is not True, no later predicate, directive
\* factory, coercer, secondary validator or function is invoked and the call
\* returns that value, through the output formatter if one is configured;
\* when every predicate returns True or a falsy value the call proceeds.
C5_RequirementShortCircuit ==
    /\ \A i \in 1..Len(log) :
          log[i][1] = "requirement" =>
              \/ RequirementAt(i) = 1
              \/ /\ log[i - 1][1] = "requirement"
                 /\ RequirementAt(i) = RequirementAt(i - 1) + 1
    /\ (Ended /\ exit = "lacks_requirement") =>
          LET k == Last("requirement")
          IN  /\ k > 0
              /\ \A i \in 1..Len(log) :
                    /\ i < k => log[i][1] \in {"context_factory", "requirement"}
                    /\ i > k => log[i][1] \in {"teardown", "output"}
              /\ returned.kind = "returned"
              /\ returned.value = IF interface.outputs
                                  THEN <<"output", "lacks", log[k][2]>>
                                  ELSE <<"lacks", log[k][2]>>
              /\ Flags.lacks_requirement = <<"lacks", log[k][2]>>
    /\ (interface.requires > 0 /\ pc \notin {"idle", "requirements"}
            /\ ~(Ended /\ exit = "lacks_requirement")
            /\ ~(Ended /\ returned.value = Exc("requirement"))) =>
          /\ RequirementAt(Last("requirement")) = interface.requires
          /\ IF pc = "bind" THEN Last("requirement") = Len(log)
             ELSE log[Last("requirement") + 1][1] = "bind"

\* the first of two predicates failed: the second was not evaluated
C5_Witness ==
    /\ Ended
    /\ exit = "lacks_requirement"
    /\ interface.requires = 2
    /\ Kinds = <<"context_factory", "requirement", "teardown">>
    /\ returned.value = Lacks(1)

\* every predicate passed and the function was invoked
C5_WitnessProceeds ==
    /\ Ended
    /\ exit = "success"
    /\ interface.requires = 2
    /\ HasEvent("function")

\* C6: an exception of the function or of the return transform is never
\* swallowed or replaced: the call does not return normally and applies no
\* output formatter, every parameter cleanup hook it invokes is given that
\* exception, and once parameter cleanup has run, the context teardown is
\* given it as `exception`, last of all steps, and the caller observes it.
C6_ExceptionPropagates ==
    exception /= None =>
        /\ exception \in {Exc("function"), Exc("transform")}
        /\ returned.kind /= "returned"
        /\ ~HasEvent("output")
        /\ pc \in {"cleanup", "done"}
        /\ \A i \in 1..Len(log) : log[i][1] = "cleanup" => log[i][2] = exception[2]
        /\ (Ended /\ exit = "exception") =>
              /\ returned = [kind |-> "raised", value |-> exception]
              /\ teardowns = <<[context |-> context, exception |-> exception,
                                errors |-> None, lacks_requirement |-> None]>>
              /\ log[Len(log)] = Ev("teardown", "exception")
              /\ Count("teardown") = 1
        /\ (Ended /\ exit /= "exception") =>
              /\ exit = "escaped"
              /\ log[Len(log)][1] = "cleanup"

\* the transform raised, and a cleanup hook was given its exception
C6_Witness ==
    /\ Ended
    /\ exit = "exception"
    /\ exception = Exc("transform")
    /\ returned.value = Exc("transform")
    /\ Ev("cleanup", "transform") \in Range(log)

\* the function raised
C6_WitnessFunction ==
    /\ Ended
    /\ exit = "exception"
    /\ returned.value = Exc("function")
    /\ Flags.exception = Exc("function")

\* C7: when validation yields errors the function is never invoked, and the
\* call returns {"errors": mapping}, or what the on_invalid handler made of
\* it if one applies, rendered by the invalid-output formatter if one is
\* configured, else by the output formatter if one is configured, else raw.
C7_InvalidReturned ==
    /\ errors /= <<>> =>
          /\ ~HasEvent("function")
          /\ pc \in {"coerce", "required", "invalid", "done"}
          /\ Ended => exit \in {"invalid", "escaped"}
          /\ (Ended /\ exit = "escaped") => returned.value = Exc("on_invalid")
    /\ (Ended /\ exit = "invalid") =>
          /\ errors /= <<>>
          /\ \E value \in IF OnInvalidApplies
                          THEN {Empty, <<IF interface.on_invalid = "handler"
                                         THEN "on_invalid" ELSE "transform">>
                                       \o <<"errors">> \o Flatten(errors)}
                          ELSE {<<"errors">> \o Flatten(errors)} :
                /\ Flags.errors = value
                /\ HasEvent("on_invalid") <=> OnInvalidApplies
                /\ returned = [kind |-> "returned",
                               value |-> IF interface.invalid_outputs
                                         THEN <<"output_invalid">> \o value
                                         ELSE IF interface.outputs
                                         THEN <<"output">> \o value
                                         ELSE value]

\* both formatters configured: the invalid-output one rendered the errors
C7_Witness ==
    /\ Ended
    /\ exit = "invalid"
    /\ interface.invalid_outputs
    /\ interface.outputs
    /\ returned.value[1] = "output_invalid"
    /\ returned.value[2] = "errors"

\* an on_invalid handler applied and the output formatter rendered its result
C7_WitnessHandler ==
    /\ Ended
    /\ exit = "invalid"
    /\ interface.on_invalid = "handler"
    /\ interface.outputs
    /\ returned.value[1] = "output"
    /\ returned.value[2] = "on_invalid"

\* the place of a step in the per-call algorithm
Rank(kind) ==
    CASE kind = "context_factory" -> 1
      [] kind = "requirement" -> 2
      [] kind = "bind" -> 3
      [] kind = "directive" -> 4
      [] kind = "coerce" -> 5
      [] kind = "required" -> 6
      [] kind = "validate_function" -> 7
      [] kind = "on_invalid" -> 8
      [] kind = "rewrite" -> 9
      [] kind = "function" -> 10
      [] kind = "transform" -> 11
      [] kind = "cleanup" -> 12
      [] kind = "teardown" -> 13
      [] kind = "output" -> 14

\* the steps that run once per predicate, directive, coercer or hook
Repeated == {"requirement", "directive", "coerce", "cleanup"}

\* C8: in a call of a synchronous function the steps that run occur in the
\* order context factory, requirement predicates, directive factories,
\* coercers and required check, secondary validator, rename reversal,
\* function, transform, cleanup hooks, teardown, output formatter; every
\* directive parameter is bound when the required check runs; and on success,
\* requirement failure and validation failure the teardown comes immediately
\* before the output formatter.
C8_StepOrder ==
    ~interface.is_coroutine =>
        /\ \A i, j \in 1..Len(log) :
              i < j =>
                  \/ Rank(log[i][1]) < Rank(log[j][1])
                  \/ log[i][1] = log[j][1] /\ log[i][1] \in Repeated
        /\ (pc = "required" \/ HasEvent("required")) =>
              /\ \A i \in 1..Len(log) : log[i][1] = "directive" => log[i][2] \in DOMAIN kwargs
              /\ ~interface.skip_directives =>
                    \A p \in DOMAIN interface.directives : p \in DOMAIN kwargs
        /\ HasEvent("output") =>
              /\ Len(log) >= 2
              /\ log[Len(log)][1] = "output"
              /\ log[Len(log) - 1][1] = "teardown"
              /\ Len(teardowns) = 1
        /\ (Ended /\ exit \in {"success", "lacks_requirement", "invalid"}) =>
              /\ HasEvent("teardown")
              /\ HasEvent("output") <=>
                    \/ interface.outputs
                    \/ exit = "invalid" /\ interface.invalid_outputs
        /\ HasEvent("function") => body \in {"returned", "raised"}

\* a successful call with a directive injected and the result formatted
C8_Witness ==
    /\ Ended
    /\ exit = "success"
    /\ ~interface.is_coroutine
    /\ HasEvent("directive")
    /\ HasEvent("required")
    /\ HasEvent("function")
    /\ HasEvent("output")

\* a successful call that ran a requirement, the transform and a cleanup hook
C8_WitnessHooks ==
    /\ Ended
    /\ exit = "success"
    /\ ~interface.is_coroutine
    /\ HasEvent("directive")
    /\ HasEvent("transform")
    /\ HasEvent("cleanup")

\* C9: for an asynchronous function called while an event loop is running,
\* the return transform, the parameter cleanup hooks and the context teardown
\* run only after the function's body has finished, and an exception raised
\* by the body is the `exception` argument of the context teardown.
C9_AsyncOrderInRunningLoop ==
    (interface.is_coroutine /\ loop_running) =>
        /\ (HasEvent("transform") \/ HasEvent("cleanup") \/ HasEvent("teardown")) =>
              body \in {"returned", "raised"}
        /\ (Ended /\ body = "raised") =>
              /\ Len(teardowns) = 1
              /\ Flags.exception = Exc("function")

\* the call returned the awaitable, its teardown done with no flag set, and
\* the body raised when the caller awaited it
C9_Witness ==
    /\ interface.is_coroutine
    /\ loop_running
    /\ Ended
    /\ exit = "success"
    /\ body = "raised"
    /\ Flags.exception = None
    /\ returned = [kind |-> "returned", value |-> <<"awaitable">>]

\* C10: for an asynchronous function called while no event loop is running,
\* the call blocks until the function has completed and returns its result,
\* not an awaitable; when the body raises, the call raises that exception and
\* its one teardown call is given it as `exception`.
C10_AsyncWithoutLoop ==
    (interface.is_coroutine /\ ~loop_running /\ HasEvent("function")) =>
        /\ body \in {"returned", "raised"}
        /\ ~Contains(result, <<"awaitable">>)
        /\ body = "returned" => exception \in {None, Exc("transform")}
        /\ (Ended /\ exit = "success") =>
              /\ body = "returned"
              /\ returned.kind = "returned"
              /\ Contains(returned.value, <<"result">>)
              /\ ~Contains(returned.value, <<"awaitable">>)
        /\ body = "raised" =>
              /\ exception = Exc("function")
              /\ returned.kind /= "returned"
              /\ (Ended /\ exit = "exception") =>
                    /\ returned = [kind |-> "raised", value |-> Exc("function")]
                    /\ teardowns = <<[context |-> context, exception |-> Exc("function"),
                                      errors |-> None, lacks_requirement |-> None]>>
              /\ (Ended /\ exit /= "exception") =>
                    /\ exit = "escaped"
                    /\ log[Len(log)][1] = "cleanup"

\* the body raised and the call raised its exception after the teardown
C10_Witness ==
    /\ interface.is_coroutine
    /\ ~loop_running
    /\ Ended
    /\ exit = "exception"
    /\ body = "raised"
    /\ returned.value = Exc("function")
    /\ Flags.exception = Exc("function")

\* the body returned and the call returned its result
C10_WitnessResult ==
    /\ interface.is_coroutine
    /\ ~loop_running
    /\ Ended
    /\ exit = "success"
    /\ returned = [kind |-> "returned", value |-> <<"result">>]

----------------------------------------------------------------------------
\* Interface.__init__, lines 162-166: the descriptor of a function is built
\* when a route is first bound to it and kept in its `interface` attribute.

\* bindings of routes to the function in one behaviour
MaxBindings == 2

\* the routes bound: a bare one, two that rename parameter a, one with a
\* return transform
BindRoutes ==
    {BareRoute,
     [BareRoute EXCEPT !.map_params = << <<"x", "a">> >>],
     [BareRoute EXCEPT !.map_params = << <<"y", "a">> >>],
     [BareRoute EXCEPT !.transform = "slotted"]}

\* Local(route, function): `target` 0 is the function itself, k > 0 the k-th
\* bound Interface decorated again (its `interface` attribute is the
\* descriptor).  The Interfaces bound earlier see what this one does to the
\* descriptor's `defaults` and `all_parameters`.
Bind ==
    /\ Len(bound) < MaxBindings
    /\ \E route \in BindRoutes, given \in Args, target \in 0..Len(bound),
          defined \in ApiDirectives :
          LET d == Decorate(function, route, given, defined)
          IN  /\ built' = built + d.constructed
              /\ function' = d.function
              /\ bound' = Append(
                    [j \in DOMAIN bound |->
                        [bound[j] EXCEPT !.local.defaults = d.local.defaults,
                                         !.local.all_parameters = d.local.all_parameters]],
                    Bound(d, built', route, given, target, defined))
    /\ UNCHANGED <<pipeline, routing, concurrent, probing>>

\* a function def f(a, b) is declared
BindInit ==
    /\ \E fn \in Functions :
          /\ Weight(fn, BareRoute, {}) <= MaxOptions
          /\ function = Undecorated(fn)
    /\ built = 0
    /\ bound = <<>>
    /\ interface = Local(BareRoute, Interfaces(BareFunction), {})
    /\ Idle
    /\ Unprobed
    /\ configs = <<>>
    /\ made = <<>>
    /\ chain = NoChain

BindNext == Bind

BindSpec == BindInit /\ [][BindNext]_vars

----------------------------------------------------------------------------
\* What the chain calls made say.

\* the configuration chain call k returned, and the one it was made on
Returned(k) == configs[k + 1]

Receiver(k) == configs[chain[k].receiver]

\* C11: no chain method mutates its receiver: after any sequence of chain
\* calls every configuration's route is what it was constructed with, and
\* each call returned a configuration object that is none of those there
\* were, carrying the value the call set.
C11_ChainLeavesReceiver ==
    /\ Len(configs) = Len(made)
    /\ Len(configs) = Len(chain) + 1
    /\ \A i \in DOMAIN configs : configs[i] = made[i]
    /\ \A k \in DOMAIN chain :
          /\ chain[k].receiver \in 1..k
          /\ CASE chain[k].method = "requires" ->
                     Field(Returned(k), "requires")
                         = Field(made[chain[k].receiver], "requires") \o chain[k].given
               [] chain[k].method = "doesnt_require" ->
                     Range(Field(Returned(k), "requires"))
                         = Range(Field(made[chain[k].receiver], "requires"))
                               \ Range(Listed(chain[k].given))
               [] OTHER ->
                     Field(Returned(k), chain[k].field) = chain[k].given

\* the part of C11 that is about the receiver: every configuration's route
\* is what it was constructed with, and each call made one more configuration
C11_ReceiverUnchanged ==
    /\ Len(configs) = Len(made)
    /\ Len(configs) = Len(chain) + 1
    /\ \A i \in DOMAIN configs : configs[i] = made[i]
    /\ \A k \in DOMAIN chain : chain[k].receiver \in 1..k

\* a validation function was given to validate(), and the configuration
\* returned does not carry it
C11_WitnessValidator ==
    /\ Len(chain) = 1
    /\ chain[1].method = "validate"
    /\ chain[1].given = <<"v1">>
    /\ Field(Returned(1), "validate") /= <<"v1">>
    /\ "validate" \notin DOMAIN Returned(1)

\* two chain calls were made on the first configuration, which had an output
\* formatter: the second call removed it from the copy only
C11_Witness ==
    /\ Len(chain) = 2
    /\ chain[1].receiver = 1
    /\ chain[2].receiver = 1
    /\ chain[2].method = "output"
    /\ chain[2].given = None
    /\ Field(configs[1], "output") = <<"o1">>
    /\ Field(configs[3], "output") = None

\* C12: the configuration a chain call returns agrees with the receiver on
\* every field other than the one the call sets.
C12_ChainKeepsOtherFields ==
    \A k \in DOMAIN chain :
        \A f \in Fields \ {chain[k].field} :
            Field(Returned(k), f) = Field(Receiver(k), f)

\* a configuration with directives disabled, and version(...) called on it:
\* the configuration returned has directives enabled
C12_Witness ==
    /\ Len(chain) = 1
    /\ chain[1].method = "version"
    /\ Field(configs[1], "directives") = <<"False">>
    /\ Field(configs[2], "directives") = True
    /\ Field(configs[2], "version") = chain[1].given

\* the requirements of configuration j, were every requires call to append
RECURSIVE Concatenated(_)
Concatenated(j) ==
    IF j = 1 THEN Field(made[1], "requires")
    ELSE Concatenated(chain[j - 1].receiver) \o chain[j - 1].given

\* configuration j came of the first by requires calls only
RECURSIVE ByRequires(_)
ByRequires(j) ==
    \/ j = 1
    \/ /\ chain[j - 1].method = "requires"
       /\ ByRequires(chain[j - 1].receiver)

\* C13: requires(R) on a configuration whose requirements are T returns one
\* whose requirements are T followed by R, in order and with duplicates; so
\* after a sequence of requires calls they are the concatenation of what the
\* configuration was constructed with and all that was added.
C13_RequiresAppends ==
    /\ \A k \in DOMAIN chain :
          chain[k].method = "requires" =>
              /\ "requires" \in DOMAIN Returned(k)
              /\ Returned(k)["requires"]
                    = Field(Receiver(k), "requires") \o chain[k].given
    /\ \A j \in DOMAIN configs :
          ByRequires(j) => Field(configs[j], "requires") = Concatenated(j)

\* requires was called twice in a row and a requirement is there three times
C13_Witness ==
    /\ Len(chain) = 2
    /\ chain[1].method = "requires"
    /\ chain[2].method = "requires"
    /\ chain[2].receiver = 2
    /\ Field(configs[1], "requires") = <<"r1">>
    /\ Field(configs[3], "requires") = <<"r1", "r2", "r1", "r1">>

\* C14: doesnt_require(R) returns a configuration whose requirements hold no
\* occurrence of a requirement of R and hold every requirement of the
\* receiver that is not in R, whether R is one requirement or a list or
\* tuple of them.
C14_DoesntRequireRemoves ==
    \A k \in DOMAIN chain :
        chain[k].method = "doesnt_require" =>
            LET removed == Range(Listed(chain[k].given))
                had == Range(Field(Receiver(k), "requires"))
                has == Range(Field(Returned(k), "requires"))
            IN  /\ has \cap removed = {}
                /\ had \ removed \subseteq has
                /\ has \subseteq had

\* one requirement of two was removed, given on its own
C14_Witness ==
    /\ Len(chain) = 1
    /\ chain[1].method = "doesnt_require"
    /\ chain[1].given = <<"bare", "r1">>
    /\ Field(configs[1], "requires") = <<"r2", "r1">>
    /\ Field(configs[2], "requires") = <<"r2">>

\* two requirements were removed, given as a tuple
C14_WitnessTuple ==
    /\ Len(chain) = 1
    /\ chain[1].method = "doesnt_require"
    /\ chain[1].given = <<"r2", "r1">>
    /\ Field(configs[1], "requires") = <<"r2", "r1">>
    /\ "requires" \notin DOMAIN configs[2]

\* C15: over any sequence of bindings of routes to the function, the bound
\* Interfaces decorated again included, the descriptor is constructed exactly
\* once, every bound Interface refers to that one descriptor, and two
\* bindings of equal configuration have identical parameters, required and
\* defaults.
C15_DescriptorBuiltOnce ==
    /\ built <= 1
    /\ bound /= <<>> =>
          /\ built = 1
          /\ hasattr_interface(function)
    /\ \A j \in DOMAIN bound : bound[j].descriptor = 1
    /\ \A i, j \in DOMAIN bound :
          (bound[i].route = bound[j].route /\ bound[i].args = bound[j].args) =>
              /\ bound[i].local.parameters = bound[j].local.parameters
              /\ bound[i].local.required = bound[j].local.required
              /\ bound[i].local.defaults = bound[j].local.defaults

\* the function, whose parameter a has a default, was bound by a route that
\* renames a and then, through the first bound Interface, by an equal route
C15_Witness ==
    /\ Len(bound) = 2
    /\ built = 1
    /\ bound[2].target = 1
    /\ bound[1].route = bound[2].route
    /\ bound[1].args = bound[2].args
    /\ bound[1].route.map_params /= <<>>
    /\ bound[2].local.parameters = <<"x", "b">>
    /\ "x" \in DOMAIN bound[2].local.defaults

\* C16: an Interface bound by a route that supplies its own annotation
\* mapping (`args`) takes its coercers and its return transform from that
\* mapping, whether the function is decorated for the first time or carries a
\* descriptor already.
C16_ArgsOverrideAnnotations ==
    \A j \in DOMAIN bound :
        bound[j].args.given =>
            LET own == Local(bound[j].route,
                             Interfaces_args(function.spec, bound[j].args), {})
            IN  /\ bound[j].local.input_transformations = own.input_transformations
                /\ bound[j].local.transform = own.transform

\* the second decoration gave an annotation mapping with a coercer for a and
\* a return transform: the Interface it bound has neither
C16_Witness ==
    /\ Len(bound) = 2
    /\ ~bound[1].args.given
    /\ bound[2].args.given
    /\ bound[2].route = BareRoute
    /\ bound[2].local.input_transformations = <<>>
    /\ bound[2].local.transform = "none"

----------------------------------------------------------------------------
\* What the calls of a bound Interface say about directives and the context.

\* the decoration that made the Interface the calls are made on
Decoration == bound[1]

\* the directives the function's own annotations declare
Declared == Interfaces(function.spec).directives

\* the directive events of the current call
Injections == {i \in 1..Len(log) : log[i][1] = "directive"}

\* C17: the directive map of a bound Interface is the API's directives named
\* like one of its parameters, overlaid by the directives the function's
\* annotations declare; for a name that has both, the factory of the
\* annotation is the one a call invokes.
C17_DirectivePrecedence ==
    /\ DOMAIN interface.directives =
          (Range(interface.parameters) \cap Decoration.api) \cup Declared
    /\ \A p \in DOMAIN interface.directives :
          interface.directives[p] = IF p \in Declared THEN "annotation" ELSE "api"
    /\ \A i \in Injections :
          log[i][3] = IF log[i][2] \in Declared THEN "annotation" ELSE "api"

\* b has a directive annotation and the API defines a directive named b: a
\* call that supplied no b invoked the annotation's factory, once
C17_Witness ==
    /\ "b" \in Declared
    /\ "b" \in Decoration.api
    /\ Ended
    /\ "b" \notin keywords
    /\ Len(args) < 2
    /\ \E i \in Injections : log[i][2] = "b" /\ log[i][3] = "annotation"
    /\ Cardinality(Injections) = 1

\* the API's directive is the one invoked for a parameter without a directive
\* annotation
C17_WitnessApi ==
    /\ Declared = {}
    /\ Decoration.api = {"b"}
    /\ Ended
    /\ \E i \in Injections : log[i][2] = "b" /\ log[i][3] = "api"

\* the name callers know the parameter by that the directive map has as p
Public(p) ==
    IF p \in Range(interface.parameters) THEN p
    ELSE ReverseMapping(interface.map_params, p)

\* the current call is past its directive injection step
PastInjection ==
    \/ pc \in {"coerce", "required", "validator", "invalid", "invoke", "transform",
               "cleanup"}
    \/ Ended /\ (HasEvent("coerce") \/ HasEvent("required") \/ HasEvent("rewrite"))

\* C18: in a call with directives enabled that went through directive
\* injection, the factory of every parameter in the directive map was invoked
\* once if the caller supplied no value for the parameter, by position or by
\* keyword, and not at all if the caller supplied one; it was passed the
\* parameter's default exactly when the parameter has one, and the call's
\* context; and its result is the value the function receives.
C18_InjectionOnlyForOmitted ==
    (~interface.skip_directives /\ PastInjection) =>
        \A p \in DOMAIN interface.directives :
            LET at == {i \in Injections : log[i][2] = p}
            IN  /\ Cardinality(at) = IF Public(p) \in SuppliedNames THEN 0 ELSE 1
                /\ \A i \in at :
                      /\ log[i][4] = "default" <=> Public(p) \in DOMAIN interface.defaults
                      /\ log[i][5] = ToString(context)
                      /\ HasEvent("function") =>
                            /\ p \in DOMAIN kwargs
                            /\ kwargs[p] \in
                                  {DirectiveValue(hooked, p, interface.directives[p],
                                                  log[i][4] = "default") :
                                      hooked \in BOOLEAN}

\* the route renames a, which has a directive annotation, to x; the caller
\* supplied x and b; the factory of a was invoked all the same, and the
\* function received the caller's value
C18_Witness ==
    /\ ~interface.skip_directives
    /\ interface.parameters = <<"x", "b">>
    /\ "a" \in DOMAIN interface.directives
    /\ {"x", "b"} \subseteq SuppliedNames
    /\ Ended
    /\ exit = "success"
    /\ \E i \in Injections : log[i][2] = "a"
    /\ kwargs["a"] = Supplied

\* the values the function was called with are the caller's own
OnlySupplied == \A k \in DOMAIN kwargs : kwargs[k] \in {Supplied, Coerced(Supplied)}

\* C19: an Interface bound from a route with directives disabled invokes no
\* directive factory in any call, so the function receives only arguments the
\* caller supplied; one bound from a route with validation disabled invokes
\* no coercer, no required-parameter check and no secondary validator, so the
\* values reach the function as supplied; with a flag left at its default the
\* step runs: the function is called with every parameter of the directive
\* map bound, and after the required-parameter check.
C19_PerRouteSkipping ==
    /\ Decoration.route.skip_directives =>
          /\ Injections = {}
          /\ HasEvent("function") => OnlySupplied
    /\ Decoration.route.skip_validation =>
          /\ ~HasEvent("coerce")
          /\ ~HasEvent("required")
          /\ ~HasEvent("validate_function")
          /\ errors = <<>>
          /\ \A k \in DOMAIN kwargs : kwargs[k] /= Coerced(Supplied)
    /\ (~Decoration.route.skip_directives /\ HasEvent("function")) =>
          DOMAIN interface.directives \subseteq DOMAIN kwargs
    /\ (~Decoration.route.skip_validation /\ HasEvent("function")) =>
          HasEvent("required")

\* directives are disabled on a route bound to a function whose parameter b
\* has a directive: a call that supplied a alone ended with b reported missing
C19_Witness ==
    /\ Decoration.route.skip_directives
    /\ "b" \in DOMAIN interface.directives
    /\ SuppliedNames = {"a"}
    /\ Ended
    /\ exit = "invalid"
    /\ Injections = {}
    /\ "b" \in ErrorKeys(errors)

\* validation is disabled on a route bound to a function with a coercer: the
\* function was called with the value as supplied, and with a alone
C19_WitnessValidation ==
    /\ Decoration.route.skip_validation
    /\ interface.input_transformations = <<"a">>
    /\ SuppliedNames = {"a"}
    /\ Ended
    /\ exit = "success"
    /\ kwargs = [k \in {"a"} |-> Supplied]

\* with the flags at their defaults a call injects and validates
C19_WitnessDefaults ==
    /\ ~Decoration.route.skip_directives
    /\ ~Decoration.route.skip_validation
    /\ Ended
    /\ exit = "success"
    /\ Injections /= {}
    /\ HasEvent("coerce")

\* the context every step of the current call was passed
Passed ==
    {log[i][3] : i \in {j \in 1..Len(log) : log[j][1] \in {"requirement", "coerce"}}}
    \cup {log[i][5] : i \in Injections}

\* C20: within one call, the context the context factory returned for it is
\* the one passed to every requirement predicate, every directive factory and
\* every coercer (a coercer that takes no context is called again without
\* one), the one put in the return transform's context slot, and the one the
\* context teardown of the call is given.
C20_OneContextPerCall ==
    calls > 0 =>
        /\ context = calls
        /\ factory_calls = calls
        /\ Passed \subseteq {ToString(context)}
        /\ (HasEvent("transform") /\ interface.transform = "slotted") =>
              transform_context = context
        /\ \A i \in 1..Len(teardowns) : teardowns[i].context = context

\* the second call of an Interface with a requirement and a slotted return
\* transform ended: its predicate, its transform and its teardown were given
\* the second context
C20_Witness ==
    /\ calls = 2
    /\ Ended
    /\ exit = "success"
    /\ interface.transform = "slotted"
    /\ HasEvent("requirement")
    /\ HasEvent("transform")
    /\ Passed = {"2"}
    /\ transform_context = 2
    /\ Len(teardowns) = 1
    /\ teardowns[1].context = 2

\* the second call passed its context to a directive factory
C20_WitnessDirective ==
    /\ calls = 2
    /\ Ended
    /\ \E i \in Injections : log[i][5] = "2"

\* the second call passed its context to a coercer that takes one, and to
\* another that does not
C20_WitnessCoercers ==
    /\ calls = 2
    /\ Ended
    /\ \E i, j \in 1..Len(log) :
          /\ log[i][1] = "coerce" /\ Len(log[i]) = 4 /\ log[i][3] = "2"
          /\ log[j][1] = "coerce" /\ Len(log[j]) = 6 /\ log[j][3] = "2"

----------------------------------------------------------------------------
\* Local.__call__ called by several threads at once on one bound Interface.
\* `context`, `kwargs`, `result` and `exception` are local to each call; the
\* Interface and its transform object are the same objects in every call.

\* threads calling the Interface in one behaviour
MaxThreads == 2

\* the value thread t supplies for an argument
Own(t) == <<"v", ToString(t)>>

\* the part of the single-call state that the threads leave alone
apart == <<interface, pc, args, keywords, kwargs, loop_running, context, index, todo,
           errors, result, exception, body, returned, exit, log, teardowns, calls,
           designated>>

\* the teardown given the context of the latest call of any thread
TornContext_Latest(t) == factory_calls

\* the `context` argument of this call's delete_context: the call's own local
TornContext(t) == threads[t].context

\* line 389: a thread calls the Interface with some positional arguments; the
\* context factory makes the call's context
ThreadCall ==
    /\ Len(threads) < MaxThreads
    /\ \E n \in 0..Len(interface.parameters) :
          threads' = Append(threads,
              [pc |-> "bind", given |-> n, context |-> factory_calls + 1,
               kwargs |-> <<>>, result |-> None, exception |-> None,
               errors |-> <<>>, observed |-> 0, torn |-> 0])
    /\ factory_calls' = factory_calls + 1
    /\ UNCHANGED <<apart, transform_context, teardown_calls, routing, binding, probing>>

\* lines 398-399: the positional arguments are put in the call's own kwargs
ThreadBind(t) ==
    /\ threads[t].pc = "bind"
    /\ threads' = [threads EXCEPT
          ![t].kwargs = [k \in {interface.parameters[i] : i \in 1..threads[t].given}
                            |-> Own(t)],
          ![t].pc = "validate"]
    /\ UNCHANGED <<pipeline, routing, binding, probing>>

\* lines 414-422: validate(kwargs, context); the names of `required` that are
\* missing end the call with the error mapping
ThreadValidate(t) ==
    /\ threads[t].pc = "validate"
    /\ LET found == RequiredErrors(<<>>, interface.required, threads[t].kwargs)
       IN  threads' = [threads EXCEPT
              ![t].errors = found,
              ![t].pc = IF found = <<>> THEN "invoke" ELSE "teardown"]
    /\ UNCHANGED <<pipeline, routing, binding, probing>>

\* lines 424-426: the function is called with the call's kwargs
ThreadInvoke(t) ==
    /\ threads[t].pc = "invoke"
    /\ \E outcome \in {"return", "raise"} :
          IF outcome = "return"
          THEN threads' = [threads EXCEPT
                  ![t].kwargs = _rewrite_params(threads[t].kwargs, interface.map_params),
                  ![t].result = <<"result", ToString(t)>>,
                  ![t].pc = IF interface.transform /= "none" THEN "slot"
                            ELSE "teardown"]
          ELSE threads' = [threads EXCEPT
                  ![t].kwargs = _rewrite_params(threads[t].kwargs, interface.map_params),
                  ![t].exception = Exc("function"),
                  ![t].pc = "teardown"]
    /\ UNCHANGED <<pipeline, routing, binding, probing>>

\* lines 428-429: self.transform.context = context, on the one transform object
ThreadSetSlot(t) ==
    /\ threads[t].pc = "slot"
    /\ transform_context' =
          SetSlot(interface.transform, transform_context, threads[t].context)
    /\ threads' = [threads EXCEPT ![t].pc = "transform"]
    /\ UNCHANGED <<apart, factory_calls, teardown_calls, routing, binding, probing>>

\* line 430: result = self.transform(result); a transform with a context
\* slot reads what the slot holds now
ThreadTransform(t) ==
    /\ threads[t].pc = "transform"
    /\ \E outcome \in {"value", "raise"} :
          threads' = [threads EXCEPT
              ![t].observed = IF interface.transform = "slotted"
                              THEN transform_context ELSE 0,
              ![t].result = IF outcome = "value"
                            THEN Tagged("transform", threads[t].result)
                            ELSE threads[t].result,
              ![t].exception = IF outcome = "value" THEN None ELSE Exc("transform"),
              ![t].pc = "teardown"]
    /\ UNCHANGED <<pipeline, routing, binding, probing>>

\* lines 421, 433, 436: self.api.delete_context(context, ...) ends the call
ThreadTeardown(t) ==
    /\ threads[t].pc = "teardown"
    /\ threads' = [threads EXCEPT ![t].torn = TornContext(t), ![t].pc = "done"]
    /\ teardown_calls' = teardown_calls + 1
    /\ UNCHANGED <<apart, factory_calls, transform_context, routing, binding, probing>>

\* def f(a, b) with some defaults, bound by a route with or without a return
\* transform
ThreadInit ==
    /\ \E defaults \in 0..Len(FunctionParameters), kind \in TransformKinds :
          LET d == Decorate(Undecorated([BareFunction EXCEPT !.defaults = defaults]),
                            [BareRoute EXCEPT !.transform = kind], NoArgs, {})
          IN  /\ interface = d.local
              /\ function = d.function
              /\ bound = <<Bound(d, 1, [BareRoute EXCEPT !.transform = kind],
                                 NoArgs, 0, {})>>
    /\ built = 1
    /\ Idle
    /\ Unprobed
    /\ configs = <<>>
    /\ made = <<>>
    /\ chain = NoChain

ThreadNext ==
    \/ ThreadCall
    \/ \E t \in DOMAIN threads :
          \/ ThreadBind(t)
          \/ ThreadValidate(t)
          \/ ThreadInvoke(t)
          \/ ThreadSetSlot(t)
          \/ ThreadTransform(t)
          \/ ThreadTeardown(t)

ThreadSpec == ThreadInit /\ [][ThreadNext]_vars

\* C21: under every interleaving of the calls of two threads on an Interface
\* whose return transform has a `context` slot, the transform applied to a
\* call's result finds in the slot the context made for that call.
C21_TransformSeesOwnContext ==
    \A t \in DOMAIN threads :
        threads[t].observed /= 0 => threads[t].observed = threads[t].context

\* both calls ended; the transform of the first call's result found the
\* second call's context in the slot
C21_Witness ==
    /\ Len(threads) = 2
    /\ interface.transform = "slotted"
    /\ threads[1].pc = "done"
    /\ threads[2].pc = "done"
    /\ threads[1].observed = threads[2].context
    /\ threads[1].context /= threads[2].context

\* C22: under every interleaving, each call made the context factory run once
\* for itself, put its arguments in a mapping of its own, and gave its
\* teardown the context the factory returned for it.
C22_CallsKeepTheirOwn ==
    /\ factory_calls = Len(threads)
    /\ \A t, u \in DOMAIN threads : t /= u => threads[t].context /= threads[u].context
    /\ \A t \in DOMAIN threads :
          /\ threads[t].context \in 1..factory_calls
          /\ \A k \in DOMAIN threads[t].kwargs : threads[t].kwargs[k] = Own(t)
          /\ threads[t].pc \notin {"bind"} =>
                Cardinality(DOMAIN threads[t].kwargs) = threads[t].given
          /\ threads[t].torn \in {0, threads[t].context}
          /\ threads[t].pc = "done" <=> threads[t].torn /= 0
    /\ teardown_calls = Cardinality({t \in DOMAIN threads : threads[t].pc = "done"})

\* two calls that went on at the same time ended, the second to begin being
\* the first to be torn down
C22_Witness ==
    /\ Len(threads) = 2
    /\ threads[1].pc = "teardown"
    /\ threads[2].pc = "done"
    /\ threads[1].given = 2
    /\ threads[2].given = 2
    /\ threads[2].torn = 2
    /\ threads[1].kwargs /= threads[2].kwargs

\* what C23 says stays the same of a bound Interface
Shape(local) ==
    <<local.parameters, local.required, local.defaults, local.all_parameters,
      local.directives, local.input_transformations>>

\* C23: a bound Interface is immutable after construction: its parameters,
\* required, defaults, all_parameters, directives and input_transformations
\* are in every later state what they were, whatever routes, routes with a
\* rename map included, are bound to the same function afterwards.
C23_BoundInterfaceImmutable ==
    [][\A j \in DOMAIN bound : Shape(bound'[j].local) = Shape(bound[j].local)]_vars

\* the function was bound by a route without a rename map and then by one
\* that renames a to x: the first Interface has x among its all_parameters
C23_Witness ==
    /\ Len(bound) = 2
    /\ bound[1].route.map_params = <<>>
    /\ bound[1].local.parameters = <<"a", "b">>
    /\ "x" \in bound[1].local.all_parameters
    /\ "a" \notin bound[1].local.all_parameters

\* the same, of the defaults of a function whose parameters have defaults
C23_WitnessDefaults ==
    /\ Len(bound) = 2
    /\ bound[1].route.map_params = <<>>
    /\ DOMAIN bound[1].local.defaults = {"x", "b"}

\* the coercer invocations of the current call, and how each ended
Coercions == {i \in 1..Len(log) : log[i][1] = "coerce"}

Outcome(i) == log[i][Len(log[i])]

Failed(i) == Outcome(i) \in Failures

\* C24: with raise_on_invalid set, the first exception a coercer raises
\* leaves the call at once, as the call's exception: it is in no error
\* mapping, no coercer runs after it and the function is not called; with
\* raise_on_invalid unset no exception of a coercer leaves the call, and each
\* is in the error mapping under its parameter's name.
C24_RaiseOnInvalid ==
    /\ interface.raise_on_invalid =>
          \A i \in Coercions :
              Failed(i) =>
                  /\ i = Len(log)
                  /\ Ended
                  /\ returned = [kind |-> "raised", value |-> Exc("coercer")]
                  /\ errors = <<>>
                  /\ ~HasEvent("function")
    /\ ~interface.raise_on_invalid =>
          /\ returned /= [kind |-> "raised", value |-> Exc("coercer")]
          /\ \A i \in Coercions :
                Failed(i) =>
                    /\ log[i][2] \in ErrorKeys(errors)
                    /\ ~HasEvent("function")

\* raise_on_invalid is set and a has a coercer: the coercer raised; the call
\* raised what it raised without the required-parameter check or the function
C24_Witness ==
    /\ interface.raise_on_invalid
    /\ interface.input_transformations = <<"a">>
    /\ SuppliedNames = {"a", "b"}
    /\ Ended
    /\ Cardinality(Coercions) = 1
    /\ Failed(Len(log))
    /\ log[Len(log)][2] = "a"
    /\ returned = [kind |-> "raised", value |-> Exc("coercer")]
    /\ ~HasEvent("required")

\* raise_on_invalid is unset: the coercers of a and of b both raised, and the
\* call returned the errors of both
C24_WitnessCollected ==
    /\ ~interface.raise_on_invalid
    /\ Ended
    /\ exit = "invalid"
    /\ Cardinality({i \in Coercions : Failed(i)}) = 2
    /\ ErrorKeys(errors) = {"a", "b"}

\* the name the function knows the interface-facing parameter `name` by
\* (Interface._remap_entry)
Remapped(name) ==
    LET hits == {i \in 1..Len(interface.map_params) : interface.map_params[i][1] = name}
    IN  IF hits = {} THEN name ELSE interface.map_params[CHOOSE i \in hits : TRUE][2]

\* the entries of the error mapping under a name
EntriesOf(name) == {j \in 1..Len(errors) : errors[j][1] = name}

\* what the claim says the entry of a failed coercion is
Reported(i) ==
    IF Outcome(i) = "InvalidTypeData.reasons" THEN <<"error.reasons">>
    ELSE IF Outcome(i) = "Exception.args" THEN <<"error.args[0]">>
    ELSE <<"str(error)">>

\* C25: with raise_on_invalid unset, every supplied parameter whose coercer
\* fails has exactly one entry in the error mapping, under its
\* interface-facing name: the reasons of an InvalidTypeData, or its string form
\* when it has none; otherwise the first argument of the exception, or its
\* string form when it has no arguments.  A parameter whose coercer succeeds
\* has no entry and its bound value is the coercer's result.  With no
\* on_invalid handler and no formatter the call returns {"errors": mapping}.
C25_ErrorCollection ==
    ~interface.raise_on_invalid =>
        /\ \A i \in Coercions :
              LET key == log[i][2]
              IN  /\ key \in Range(interface.parameters)
                  /\ Cardinality({j \in Coercions : log[j][2] = key}) = 1
                  /\ Failed(i) =>
                        /\ Cardinality(EntriesOf(key)) = 1
                        /\ \A j \in EntriesOf(key) : errors[j][2] = Reported(i)
                  /\ ~Failed(i) =>
                        /\ EntriesOf(key) = {}
                        /\ LET name == IF HasEvent("rewrite") THEN Remapped(key) ELSE key
                           IN  /\ name \in DOMAIN kwargs
                               /\ kwargs[name][1] = "coerced"
        /\ (/\ Ended
            /\ exit = "invalid"
            /\ ~OnInvalidApplies
            /\ ~interface.outputs
            /\ ~interface.invalid_outputs) =>
              returned = [kind |-> "returned", value |-> WrapErrors(errors)]

\* x is the route's name for a, which has a coercer; the coercer raised an
\* exception with an argument and the call returned {"errors": {"x": argument}}
C25_Witness ==
    /\ interface.parameters = <<"x", "b">>
    /\ SuppliedNames = {"x", "b"}
    /\ Ended
    /\ exit = "invalid"
    /\ \E i \in Coercions : log[i][2] = "x" /\ Outcome(i) = "Exception.args"
    /\ returned = [kind |-> "returned", value |-> <<"errors", "x", "error.args[0]">>]

\* the coercer of a succeeded, the required-parameter check found b missing
C25_WitnessCoerced ==
    /\ SuppliedNames = {"a"}
    /\ Ended
    /\ exit = "invalid"
    /\ \E i \in Coercions : log[i][2] = "a" /\ Outcome(i) = "value"
    /\ kwargs = [k \in {"a"} |-> Coerced(Supplied)]
    /\ ErrorKeys(errors) = {"b"}

\* the invocations of the secondary validator in the current call
Validations == {i \in 1..Len(log) : log[i][1] = "validate_function"}

\* the error mapping has an entry that coercion or the required-parameter
\* check made
PerParameterErrors == ErrorKeys(errors) \cap {"a", "b", "x"} /= {}

\* C26: the secondary validator is invoked in a call exactly when one is
\* configured and coercion and the required-parameter check made no error;
\* it is invoked once, with the whole mapping of bound arguments as coercion
\* left it; a truthy return value is the error set of the call, and the
\* function is not called; after a falsy one the call goes on to the function.
\* (A validator or an on_invalid handler that raises ends the call.)
C26_SecondaryValidator ==
    /\ Cardinality(Validations) <= 1
    /\ \A i \in Validations :
          /\ interface.validate_function
          /\ ~PerParameterErrors
          /\ \A j \in Coercions : j < i /\ ~Failed(j)
          /\ log[i - 1][1] = "required"
          /\ i = Len(log) => SubSeq(log[i], 3, Len(log[i])) = Flat(kwargs)
          /\ \A k \in Range(interface.input_transformations) :
                k \in DOMAIN kwargs /\ i = Len(log) => kwargs[k][1] = "coerced"
          /\ errors /= <<>> =>
                /\ ~HasEvent("function")
                /\ pc \in {"invalid", "done"}
                /\ (Ended /\ returned.value /= Exc("on_invalid")) =>
                      /\ exit = "invalid"
                      /\ teardowns[1].errors /= None
          /\ (errors = <<>> /\ returned.value /= Exc("validate_function")) =>
                pc = "invoke" \/ HasEvent("function")
    /\ (interface.validate_function /\ HasEvent("required") /\ ~PerParameterErrors) =>
          pc = "validator" \/ Validations /= {}
    /\ HasEvent("function") /\ ~interface.skip_validation /\ interface.validate_function
          => Validations /= {}

\* a validator is configured; the call supplied a and b, the validator
\* returned errors and the call returned them without calling the function
C26_Witness ==
    /\ interface.validate_function
    /\ Ended
    /\ exit = "invalid"
    /\ Cardinality(Validations) = 1
    /\ \E i \in Validations : log[i] = <<"validate_function", "", "a", "v", "b", "v">>
    /\ returned = [kind |-> "returned", value |-> <<"errors", "validate", "rejected">>]

\* the validator was passed the value the coercer of a made, returned a falsy
\* value, and the function was called
C26_WitnessProceeds ==
    /\ interface.validate_function
    /\ interface.input_transformations = <<"a">>
    /\ Ended
    /\ exit = "success"
    /\ \E i \in Validations :
          log[i] = <<"validate_function", "", "a", "coerced", "v", "b", "v">>

\* a validator is configured but b is missing: the validator was not invoked
C26_WitnessNotInvoked ==
    /\ interface.validate_function
    /\ Ended
    /\ exit = "invalid"
    /\ ErrorKeys(errors) = {"b"}
    /\ Validations = {}

\* the name under which the current call holds what came in as `key`
Held(key) == IF HasEvent("rewrite") THEN Remapped(key) ELSE key

\* C28: a coercer is first invoked with the value and context = the call's
\* context; it is invoked again, with the value alone, only if that
\* invocation raised TypeError; a coercer that takes the context and succeeds
\* is invoked once per supplied parameter in a call; the coercer of a
\* parameter that is not among the bound arguments is not invoked.
C28_CoercerProtocol ==
    /\ \A i \in Coercions :
          /\ log[i][3] = ToString(context)
          /\ \/ Len(log[i]) = 4
             \/ /\ Len(log[i]) = 6
                /\ log[i][4] = "TypeError"
                /\ log[i][5] = "none"
          /\ Cardinality({j \in Coercions : log[j][2] = log[i][2]}) = 1
          /\ log[i][2] \in Range(interface.input_transformations)
          /\ Held(log[i][2]) \in DOMAIN kwargs
    /\ HasEvent("required") =>
          \A k \in Range(interface.input_transformations) :
              Held(k) \in DOMAIN kwargs => \E i \in Coercions : log[i][2] = k

\* a has a coercer that takes the context and b one that does not: a call
\* that supplied both invoked the first once and the second twice
C28_Witness ==
    /\ interface.input_transformations = <<"a", "b">>
    /\ SuppliedNames = {"a", "b"}
    /\ Ended
    /\ exit = "success"
    /\ \E i, j \in Coercions :
          /\ log[i] = <<"coerce", "a", ToString(context), "value">>
          /\ log[j] = <<"coerce", "b", ToString(context), "TypeError", "none", "value">>

\* b has a coercer and was not supplied: its coercer was not invoked
C28_WitnessAbsent ==
    /\ interface.input_transformations = <<"b">>
    /\ SuppliedNames = {"a"}
    /\ Ended
    /\ HasEvent("required")
    /\ Coercions = {}

\* the declaration of the decorated function
Declaration == Interfaces(function.spec)

\* C27: an Interface bound with the rename map {interface_name:
\* internal_name} has its parameters, required, defaults and
\* input_transformations keyed by interface_name in place of internal_name.
C27_RenamedKeys ==
    \A j \in DOMAIN bound :
        \A e \in DOMAIN bound[j].route.map_params :
            LET interface_name == bound[j].route.map_params[e][1]
                internal_name == bound[j].route.map_params[e][2]
                local == bound[j].local
                Renamed(names) == (names \ {internal_name}) \cup
                                  (IF internal_name \in names THEN {interface_name}
                                   ELSE {})
            IN  /\ Range(local.parameters) = Renamed(Range(Declaration.parameters))
                /\ Range(local.required) = Renamed(Range(Declaration.required))
                /\ DOMAIN local.defaults = Renamed(DOMAIN Declaration.defaults)
                /\ ~bound[j].args.given =>
                      Range(local.input_transformations) =
                          Renamed(Range(Declaration.input_transformations))

\* a has a default; the function was bound by a route that names it x and
\* then by a route that names it y: the second Interface has the parameter y
\* and a default under x
C27_Witness ==
    /\ Len(bound) = 2
    /\ bound[1].route.map_params = << <<"x", "a">> >>
    /\ bound[2].route.map_params = << <<"y", "a">> >>
    /\ bound[2].local.parameters = <<"y", "b">>
    /\ DOMAIN bound[2].local.defaults = {"x", "b"}

\* the calls of an Interface bound with a rename map: a value is supplied and
\* validated under interface_name, the error messages name interface_name,
\* and the function receives the value, coerced if the parameter has a
\* coercer, under internal_name; the rewrite comes after validation and
\* immediately before the function
C27_CallsUnderRename ==
    \A e \in DOMAIN interface.map_params :
        LET interface_name == interface.map_params[e][1]
            internal_name == interface.map_params[e][2]
        IN  /\ ErrorKeys(errors) \subseteq Range(interface.parameters) \cup {"validate"}
            /\ \A j \in 1..Len(errors) :
                  errors[j][1] = interface_name =>
                      errors[j][2] = RequiredMessage(interface_name) \/ Len(errors[j][2]) = 1
            /\ \A i \in Coercions : log[i][2] /= internal_name
            /\ (interface_name \in SuppliedNames /\ HasEvent("bind")
                /\ Len(args) <= Len(interface.parameters) /\ ~HasEvent("rewrite")) =>
                  /\ interface_name \in DOMAIN kwargs
                  /\ kwargs[interface_name] \in {Supplied, Coerced(Supplied)}
            /\ HasEvent("rewrite") =>
                  /\ interface_name \notin DOMAIN kwargs
                  /\ interface_name \in SuppliedNames =>
                        /\ internal_name \in DOMAIN kwargs
                        /\ kwargs[internal_name] =
                              IF interface_name \in Range(interface.input_transformations)
                                 /\ ~interface.skip_validation
                              THEN Coerced(Supplied) ELSE Supplied
            /\ \A i \in 1..Len(log) :
                  log[i][1] = "rewrite" =>
                      /\ i < Len(log)
                      /\ log[i + 1][1] = "function"
                      /\ \A k \in (i + 1)..Len(log) :
                            log[k][1] \notin {"coerce", "required", "validate_function",
                                              "directive", "bind"}

----------------------------------------------------------------------------
\* Interfaces.__init__, lines 96-118: the annotations of a function sorted
\* into directives and input transformations.

\* what the loop probes an annotation for with hasattr
Capabilities == {"directive", "from_string", "load", "deserialize"}

\* an annotation: a string, or an object with some of the capabilities
Annotations == {{"str"}} \cup SUBSET Capabilities

\* the names an annotation mapping can have: the parameters and "return"
AnnotatedNames == {"a", "b", "return"}

\* load looked for before from_string
Classify_LoadFirst(annotation) ==
    IF "str" \in annotation THEN "ignored"
    ELSE IF "directive" \in annotation THEN "directive"
    ELSE IF "load" \in annotation THEN "MarshmallowInputSchema"
    ELSE IF "from_string" \in annotation THEN "from_string"
    ELSE IF "deserialize" \in annotation THEN "deserialize"
    ELSE "itself"

\* lines 104-116: what one annotation is recorded as
Classify(annotation) ==
    IF "str" \in annotation THEN "ignored"
    ELSE IF "directive" \in annotation THEN "directive"
    ELSE IF "from_string" \in annotation THEN "from_string"
    ELSE IF "load" \in annotation THEN "MarshmallowInputSchema"
    ELSE IF "deserialize" \in annotation THEN "deserialize"
    ELSE "itself"

\* the loop without the `continue` of the directive branch
Partition_NoContinue(mapping) ==
    [directives |-> {name \in DOMAIN mapping : Classify(mapping[name]) = "directive"},
     input_transformations |->
         [name \in {n \in DOMAIN mapping : Classify(mapping[n]) /= "ignored"} |->
             Classify(mapping[name] \ {"directive"})]]

\* lines 101-118: self.directives and self.input_transformations
Partition(mapping) ==
    [directives |-> {name \in DOMAIN mapping : Classify(mapping[name]) = "directive"},
     input_transformations |->
         [name \in {n \in DOMAIN mapping :
                       Classify(mapping[n]) \notin {"ignored", "directive"}} |->
             Classify(mapping[name])]]

\* Interfaces.__init__: the descriptor is built from the annotation mapping
Describe ==
    /\ described = <<>>
    /\ described' = <<Partition(transformers)>>
    /\ annotated' = transformers
    /\ UNCHANGED <<pipeline, routing, binding, concurrent, transformers, handled>>

\* an annotation object is given an attribute it did not have
Gain ==
    /\ described /= <<>>
    /\ \E name \in DOMAIN transformers, capability \in Capabilities :
          /\ "str" \notin transformers[name]
          /\ capability \notin transformers[name]
          /\ transformers' = [transformers EXCEPT ![name] = @ \cup {capability}]
    /\ UNCHANGED <<pipeline, routing, binding, concurrent, annotated, described, handled>>

\* Interface.validate, lines 261-266: the stored handler of a name is invoked
Handle ==
    /\ described /= <<>>
    /\ \E name \in DOMAIN described[1].input_transformations :
          handled' = Set(handled, name, described[1].input_transformations[name])
    /\ UNCHANGED <<pipeline, routing, binding, concurrent, transformers, annotated,
                   described>>

\* a function with annotations for some of a, b and its return value
ClassifyInit ==
    /\ \E names \in SUBSET AnnotatedNames :
          /\ transformers \in [names -> Annotations]
          /\ "return" \in names => transformers["return"] \in {{"str"}, {}}
    /\ annotated = <<>>
    /\ described = <<>>
    /\ handled = <<>>
    /\ interface = Local(BareRoute, Interfaces(BareFunction), {})
    /\ Idle
    /\ configs = <<>>
    /\ made = <<>>
    /\ chain = NoChain
    /\ function = Undecorated(BareFunction)
    /\ built = 0
    /\ bound = <<>>

ClassifyNext ==
    \/ Describe
    \/ Gain
    \/ Handle

ClassifySpec == ClassifyInit /\ [][ClassifyNext]_vars

\* C29: in every descriptor built for a function no name is both in
\* `directives` and in `input_transformations`: an annotation with the
\* `directive` marker is recorded as a directive only, whatever else it has.
C29_DirectiveOrCoercer ==
    described /= <<>> =>
        /\ described[1].directives \cap DOMAIN described[1].input_transformations = {}
        /\ \A name \in DOMAIN annotated :
              "directive" \in annotated[name] =>
                  /\ name \in described[1].directives
                  /\ name \notin DOMAIN described[1].input_transformations

\* the annotation of a has the directive marker and every other capability,
\* the annotation of b only the others
C29_Witness ==
    /\ described /= <<>>
    /\ DOMAIN annotated = {"a", "b"}
    /\ annotated["a"] = Capabilities
    /\ annotated["b"] = Capabilities \ {"directive"}
    /\ described[1].directives = {"a"}
    /\ DOMAIN described[1].input_transformations = {"b"}

\* what the stated priority makes of an annotation
Priority(annotation) ==
    CASE "str" \in annotation -> "ignored"
      [] "str" \notin annotation /\ "directive" \in annotation -> "directive"
      [] annotation \cap {"str", "directive"} = {} /\ "from_string" \in annotation ->
            "from_string"
      [] annotation \cap {"str", "directive", "from_string"} = {} /\ "load" \in annotation ->
            "MarshmallowInputSchema"
      [] annotation \cap {"str", "directive", "from_string", "load"} = {}
         /\ "deserialize" \in annotation -> "deserialize"
      [] annotation = {} -> "itself"

\* C30: whatever capabilities an annotation has, a string is ignored; else
\* the `directive` marker makes it a directive; else from_string is the
\* coercer; else load makes the coercer a schema-loading adapter; else
\* deserialize is the coercer; else the annotation itself is.  This is settled
\* when the descriptor is built: what a call invokes for a name is what was
\* recorded then, whatever the annotation has become.
C30_ClassificationPriority ==
    described /= <<>> =>
        /\ \A name \in DOMAIN annotated :
              LET kind == Priority(annotated[name])
              IN  /\ name \in described[1].directives <=> kind = "directive"
                  /\ name \in DOMAIN described[1].input_transformations <=>
                        kind \notin {"ignored", "directive"}
                  /\ name \in DOMAIN described[1].input_transformations =>
                        described[1].input_transformations[name] = kind
        /\ described[1].directives \cup DOMAIN described[1].input_transformations
              \subseteq DOMAIN annotated
        /\ \A name \in DOMAIN handled : handled[name] = Priority(annotated[name])

\* the annotation of a had load and deserialize when the descriptor was built
\* and was given from_string afterwards: a call invoked the schema adapter
C30_Witness ==
    /\ described /= <<>>
    /\ "a" \in DOMAIN handled
    /\ annotated["a"] = {"load", "deserialize"}
    /\ transformers["a"] = {"load", "deserialize", "from_string"}
    /\ handled["a"] = "MarshmallowInputSchema"

----------------------------------------------------------------------------
\* A route configuration used as a decorator, and the calls of what it makes.

\* what Interface.__init__ and Local.__init__ read from a `route` mapping
AsRoute(route) ==
    [requires |-> Len(Get(route, "requires", <<>>)),
     validate |-> "validate" \in DOMAIN route,
     output |-> "output" \in DOMAIN route,
     output_invalid |-> "output_invalid" \in DOMAIN route,
     transform |-> IF "transform" \in DOMAIN route THEN "plain" ELSE "none",
     raise_on_invalid |-> Truthy(Get(route, "raise_on_invalid", <<"False">>)),
     on_invalid |-> IF "on_invalid" \notin DOMAIN route THEN "absent"
                    ELSE IF route["on_invalid"] = <<"False">> THEN "False"
                    ELSE "handler",
     map_params |-> IF "map_params" \in DOMAIN route THEN <<route["map_params"]>>
                    ELSE <<>>,
     skip_directives |-> "skip_directives" \in DOMAIN route,
     skip_validation |-> "skip_validation" \in DOMAIN route]

\* route.get("args")
AsArgs(route) ==
    IF "args" \notin DOMAIN route THEN NoArgs
    ELSE [given |-> TRUE,
          annotations |-> [p \in Range(FunctionParameters) |->
                              IF p = route["args"][1] THEN route["args"][2] ELSE "none"],
          returns |-> "none"]

\* the keyword arguments the decorating route is constructed with
ExposedConstructions ==
    {[k \in {} |-> None], Entry("on_invalid", <<"False">>), Entry("on_invalid", <<"h1">>),
     Entry("transform", <<"t1">>)}

\* the function was decorated
Exposed == bound /= <<>>

\* LocalRouter.__call__: the configuration the chain ended with decorates f
LocalRouterCall ==
    /\ ~Exposed
    /\ LET route == configs[Len(configs)]
           d == Decorate(function, AsRoute(route), AsArgs(route), {})
       IN  /\ interface' = d.local
           /\ function' = d.function
           /\ built' = built + d.constructed
           /\ bound' = <<Bound(d, built', AsRoute(route), AsArgs(route), 0, {})>>
    /\ UNCHANGED <<pc, args, keywords, kwargs, loop_running, context, index, todo, errors,
                   result, exception, body, returned, exit, log, teardowns,
                   transform_context, factory_calls, teardown_calls, calls, designated,
                   routing, concurrent, probing>>

\* a local route is constructed; def f(a, b) is declared
ExposeInit ==
    /\ \E kw \in ExposedConstructions :
          /\ configs = <<LocalRouter(kw)>>
          /\ made = <<LocalRouter(kw)>>
    /\ chain = NoChain
    /\ interface = Local(BareRoute, Interfaces(BareFunction), {})
    /\ Idle
    /\ Unprobed
    /\ function = Undecorated(BareFunction)
    /\ built = 0
    /\ bound = <<>>

\* the configuration is chained, then decorates f, then f is called
ExposeNext ==
    \/ ~Exposed /\ on_invalid
    \/ ~Exposed /\ transform
    \/ LocalRouterCall
    \/ Exposed /\ Call
    \/ Exposed /\ BindArguments
    \/ Exposed /\ CheckRequired
    \/ Exposed /\ Invalid
    \/ Exposed /\ Invoke
    \/ Exposed /\ Transform
    \/ Exposed /\ ExitException
    \/ Exposed /\ ExitSuccess

ExposeSpec == ExposeInit /\ [][ExposeNext]_vars

\* what the errors of a failed validation are passed through, as the route
\* mapping has it
Through(route) ==
    IF Field(route, "on_invalid") = <<"False">> THEN "nothing"
    ELSE IF Field(route, "on_invalid") /= None THEN "on_invalid"
    ELSE IF Field(route, "transform") /= None THEN "transform"
    ELSE "nothing"

\* C31: when validation fails, the wrapped errors are passed through the
\* route's on_invalid handler if it has one; through the return transform if
\* it has none but a transform; through neither when on_invalid is False, and
\* are then returned as they are.  on_invalid=False is in the configuration a
\* chain call sets it on, and stays in those made from it by chain calls that
\* set something else.
C31_OnInvalidDefault ==
    /\ \A k \in DOMAIN chain :
          /\ chain[k].field = "on_invalid" =>
                Field(Returned(k), "on_invalid") = chain[k].given
          /\ (chain[k].field /= "on_invalid"
              /\ Field(Receiver(k), "on_invalid") = <<"False">>) =>
                Field(Returned(k), "on_invalid") = <<"False">>
    /\ (Exposed /\ Ended /\ errors /= <<>>) =>
          LET through == Through(configs[Len(configs)])
          IN  /\ HasEvent("on_invalid") <=> through /= "nothing"
              /\ ~HasEvent("transform")
              /\ exit \in {"invalid", "escaped"}
              /\ exit = "escaped" =>
                    through /= "nothing" /\ returned.value = Exc("on_invalid")
              /\ exit = "invalid" =>
                    IF through = "nothing" THEN returned.value = WrapErrors(errors)
                    ELSE returned.value \in {Tagged(through, WrapErrors(errors)), Empty}

\* on_invalid=False was given to the constructor, a chain call set a transform,
\* and a call of the function so decorated failed validation
C31_Witness ==
    /\ Len(chain) = 1
    /\ chain[1].field = "transform"
    /\ Field(made[1], "on_invalid") = <<"False">>
    /\ Exposed /\ Ended /\ exit = "invalid"
    /\ returned.value = WrapErrors(errors)

\* no on_invalid anywhere, a transform set by a chain call: the errors went
\* through the transform
C31_WitnessTransform ==
    /\ Len(chain) = 1
    /\ chain[1].field = "transform"
    /\ "on_invalid" \notin DOMAIN configs[2]
    /\ Exposed /\ Ended /\ exit = "invalid"
    /\ returned.value = Tagged("transform", WrapErrors(errors))

\* an on_invalid handler and a transform: the errors went through the handler
C31_WitnessHandler ==
    /\ Len(chain) = 2
    /\ {chain[1].field, chain[2].field} = {"transform", "on_invalid"}
    /\ Through(configs[3]) = "on_invalid"
    /\ Field(configs[3], "transform") /= None
    /\ Exposed /\ Ended /\ exit = "invalid"
    /\ returned.value = Tagged("on_invalid", WrapErrors(errors))

----------------------------------------------------------------------------
\* Chain methods called with extra keyword overrides.

\* the **overrides given besides the method's own argument
Overrides(method) ==
    IF method = "transform" THEN {Entry("output", <<"o2">>)}
    ELSE {Entry("transform", <<"t2">>)}

\* one chain call with overrides on configuration i
ChainOverriding(i, method, given, overrides, w) ==
    /\ Len(configs) <= MaxChain
    /\ configs' = Append([configs EXCEPT ![i] = w.receiver], w.made)
    /\ made' = Append(made, w.made)
    /\ chain' = Append(chain, [receiver |-> i, method |-> method, field |-> method,
                                given |-> given, overrides |-> overrides])
    /\ UNCHANGED <<pipeline, binding, concurrent, probing>>

\* Router.output, .transform, .api; InternalValidation.raise_on_invalid,
\* .on_invalid, .output_invalid: where(<field>=<argument>, **overrides)
Overriding(method) ==
    \E i \in DOMAIN configs, given \in Given(method), overrides \in Overrides(method) :
        ChainOverriding(i, method, given, overrides,
                        where(configs[i], Update(Entry(method, given), overrides)))

output_overriding == Overriding("output")

transform_overriding == Overriding("transform")

api_overriding == Overriding("api")

raise_on_invalid_overriding == Overriding("raise_on_invalid")

on_invalid_overriding == Overriding("on_invalid")

output_invalid_overriding == Overriding("output_invalid")

\* Router.requires(requirements, **overrides)
requires_overriding ==
    \E i \in DOMAIN configs, given \in Given("requires"),
       overrides \in Overrides("requires") :
        ChainOverriding(i, "requires", given, overrides,
            where(configs[i],
                  Update(Entry("requires", Get(configs[i], "requires", <<>>) \o given),
                         overrides)))

\* Router.doesnt_require(requirements, **overrides): where(requires=...) only
doesnt_require_overriding ==
    \E i \in DOMAIN configs, given \in Given("requires") \cup {<<"bare", "r1">>},
       overrides \in Overrides("doesnt_require") :
        \E kept \in Tuples(difference(Get(configs[i], "requires", <<>>), Listed(given))) :
            ChainOverriding(i, "doesnt_require", given, overrides,
                            where(configs[i], Entry("requires", kept)))

\* LocalRouter.validate(enforce=True, **kwargs): where(validate=enforce) only
validate_overriding ==
    \E i \in DOMAIN configs, given \in Given("validate"),
       overrides \in Overrides("validate") :
        ChainOverriding(i, "validate", given, overrides,
                        where(configs[i], Entry("validate", given)))

OverrideNext ==
    \/ output_overriding
    \/ transform_overriding
    \/ validate_overriding
    \/ api_overriding
    \/ requires_overriding
    \/ doesnt_require_overriding
    \/ raise_on_invalid_overriding
    \/ on_invalid_overriding
    \/ output_invalid_overriding

OverrideSpec == RouterInit /\ [][OverrideNext]_vars

\* the overrides of chain call k are in the route of the configuration made
Overridden(k) ==
    \A f \in DOMAIN chain[k].overrides :
        Field(Returned(k), f) = chain[k].overrides[f]

\* C32: a chain method called with extra keyword overrides yields a
\* configuration that has those overrides besides the field the method sets.
C32_OverridesApplied ==
    \A k \in DOMAIN chain : Overridden(k)

\* the same of the methods that hand their overrides to where()
C32_OverridesHandedOn ==
    \A k \in DOMAIN chain :
        chain[k].method \notin {"doesnt_require", "validate"} => Overridden(k)

\* route.output(f, transform=t) made a configuration with output f and
\* transform t
C32_Witness ==
    /\ Len(chain) >= 1
    /\ chain[1].method = "output"
    /\ chain[1].given = <<"o1">>
    /\ Field(Returned(1), "output") = <<"o1">>
    /\ Field(Returned(1), "transform") = <<"t2">>

\* route.doesnt_require(r, transform=t) made a configuration without t
C32_WitnessDropped ==
    /\ Len(chain) >= 1
    /\ chain[1].method = "doesnt_require"
    /\ Field(Returned(1), "transform") = None

----------------------------------------------------------------------------
\* how often predicate i was evaluated in the current call
Evaluations(i) ==
    Cardinality({j \in 1..Len(log) :
                    log[j][1] = "requirement" /\ log[j][2] = ToString(i)})

\* C33: in a call every configured requirement predicate is evaluated at most
\* once, and when all n of them pass there are exactly n evaluations.
C33_RequirementsEvaluatedOnce ==
    /\ \A i \in 1..interface.requires : Evaluations(i) <= 1
    /\ (Ended /\ exit \in {"success", "invalid", "exception"}) =>
          Count("requirement") = interface.requires

\* two predicates, both passing every time: each was evaluated twice
C33_Witness ==
    /\ Ended
    /\ exit = "success"
    /\ interface.requires = 2
    /\ Evaluations(1) = 2
    /\ Evaluations(2) = 2

\* one predicate: evaluated once
C33_WitnessSingle ==
    /\ Ended
    /\ exit = "success"
    /\ interface.requires = 1
    /\ Evaluations(1) = 1

----------------------------------------------------------------------------
\* the cleanup hooks invoked in the current call, and the `exception` each
\* was given
Cleanups == {j \in 1..Len(log) : log[j][1] = "cleanup"}

\* a directive was invoked in the current call
Injected == \E j \in 1..Len(log) : log[j][1] = "directive"

\* C34: when a call has ended after its directives were injected, every
\* argument value with a cleanup hook had the hook invoked exactly once, also
\* when the call ended because validation failed, and the hook was given
\* exception=None unless the function or the transform raised.
C34_CleanupOnEveryExit ==
    (Ended /\ Injected /\ exit \in Designated) =>
        /\ Cardinality(Cleanups) = Cardinality(Hooks(kwargs))
        /\ \A j \in Cleanups :
              log[j][2] = (IF exception = None THEN "None" ELSE exception[2])

\* the same of the calls that got as far as the function
C34_CleanupAfterInvocation ==
    (Ended /\ Injected /\ exit \in {"success", "exception"}) =>
        /\ Cardinality(Cleanups) = Cardinality(Hooks(kwargs))
        /\ \A j \in Cleanups :
              log[j][2] = (IF exception = None THEN "None" ELSE exception[2])

\* a directive made a value with a hook, validation failed, and the call
\* returned without invoking the hook
C34_Witness ==
    /\ Ended
    /\ exit = "invalid"
    /\ Injected
    /\ Hooks(kwargs) /= {}
    /\ Cleanups = {}

\* the hook invoked once after the function raised, and given its exception
C34_WitnessRaised ==
    /\ Ended
    /\ exit = "exception"
    /\ exception = Exc("function")
    /\ Cardinality(Hooks(kwargs)) = 1
    /\ \E j \in Cleanups : Cleanups = {j} /\ log[j][2] = "function"

----------------------------------------------------------------------------
\* the tuple T with every occurrence of an element of R deleted
Deleted(T, R) == SelectSeq(T, LAMBDA requirement : requirement \notin R)

\* C35: doesnt_require(R) on a configuration with requirement tuple T makes
\* one whose requirements are exactly T with the elements of R deleted: the
\* requirements that remain keep their order and their multiplicity.
C35_DoesntRequireKeepsOrder ==
    \A k \in DOMAIN chain :
        chain[k].method = "doesnt_require" =>
            Field(Returned(k), "requires")
                = Deleted(Field(Receiver(k), "requires"), Range(Listed(chain[k].given)))

\* a requirement that is not there was removed from <<r2, r1>>, and the
\* configuration made has <<r1, r2>>
C35_Witness ==
    /\ Len(chain) = 1
    /\ chain[1].method = "doesnt_require"
    /\ chain[1].given = <<"bare", "r3">>
    /\ Field(configs[1], "requires") = <<"r2", "r1">>
    /\ Field(configs[2], "requires") = <<"r1", "r2">>

\* r1 was removed from <<r2, r1, r2, r1>>, and one r2 is left of the two
C35_WitnessMultiplicity ==
    /\ Len(chain) = 2
    /\ chain[2].method = "doesnt_require"
    /\ chain[2].receiver = 2
    /\ chain[2].given = <<"bare", "r1">>
    /\ Field(configs[2], "requires") = <<"r2", "r1", "r2", "r1">>
    /\ Field(configs[3], "requires") = <<"r2">>

----------------------------------------------------------------------------
\* the descriptor as Interfaces.__init__ made it at the first binding
AsBuilt == Interfaces_args(function.spec, bound[1].args)

\* C36: binding a route with a rename map changes nothing of the cached
\* descriptor's parameters, required, defaults and all_parameters, so an
\* Interface bound by a route without a rename map has every parameter of the
\* function in `required` or among the keys of `defaults`, under the name it
\* was declared with, whatever routes were bound before.
C36_BindingIndependentOfEarlier ==
    bound /= <<>> =>
        /\ function.interface[1].parameters = AsBuilt.parameters
        /\ function.interface[1].required = AsBuilt.required
        /\ function.interface[1].defaults = AsBuilt.defaults
        /\ function.interface[1].all_parameters = AsBuilt.all_parameters
        /\ \A j \in DOMAIN bound :
              bound[j].route.map_params = <<>> =>
                  \A p \in Range(FunctionParameters) :
                      \/ p \in Range(bound[j].local.required)
                      \/ p \in DOMAIN bound[j].local.defaults

\* a has a default; the function was bound by a route that names it x and
\* then by a route without a rename map: the second Interface has the
\* parameter a, which is not required and has no default under that name
C36_Witness ==
    /\ Len(bound) = 2
    /\ bound[1].route.map_params = << <<"x", "a">> >>
    /\ bound[2].route.map_params = <<>>
    /\ bound[2].local.parameters = <<"a", "b">>
    /\ bound[2].local.required = <<>>
    /\ "a" \notin DOMAIN bound[2].local.defaults
    /\ "x" \in DOMAIN function.interface[1].defaults

\* the parameters and required of the descriptor are never changed
C36_TuplesUnchanged ==
    bound /= <<>> =>
        /\ function.interface[1].parameters = AsBuilt.parameters
        /\ function.interface[1].required = AsBuilt.required

----------------------------------------------------------------------------
\* Interface._rewrite_params on its own: rename maps and bound-argument
\* mappings of every shape.

\* rename maps as dicts in insertion order, <<interface_name, internal_name>>:
\* none, one entry, two apart, a swap, and two where the interface-facing name
\* of one is the internal name of the other, in both orders
RewriteMaps ==
    {<<>>,
     << <<"x", "a">> >>,
     << <<"x", "a">>, <<"y", "b">> >>,
     << <<"a", "b">>, <<"b", "a">> >>,
     << <<"x", "a">>, <<"a", "b">> >>,
     << <<"a", "b">>, <<"x", "a">> >>}

\* the names a bound-argument mapping may have
RewriteNames == {"a", "b", "x", "y"}

\* the value supplied under a name
Under(name) == <<"v", name>>

\* an Interface bound with a rename map holds a mapping of bound arguments
RewriteInit ==
    /\ \E map \in RewriteMaps, S \in SUBSET RewriteNames :
          /\ interface = Local([BareRoute EXCEPT !.map_params = map],
                               Interfaces(BareFunction), {})
          /\ keywords = S
          /\ kwargs = [k \in S |-> Under(k)]
    /\ pc = "idle"
    /\ args = <<>>
    /\ loop_running = FALSE
    /\ context = 0
    /\ index = 0
    /\ todo = {}
    /\ errors = <<>>
    /\ result = None
    /\ exception = None
    /\ body = "idle"
    /\ returned = [kind |-> "none", value |-> None]
    /\ exit = "none"
    /\ log = <<>>
    /\ teardowns = <<>>
    /\ transform_context = 0
    /\ factory_calls = 0
    /\ teardown_calls = 0
    /\ calls = 0
    /\ designated = 0
    /\ threads = <<>>
    /\ Unprobed
    /\ configs = <<>>
    /\ made = <<>>
    /\ chain = NoChain
    /\ function = Undecorated(BareFunction)
    /\ built = 0
    /\ bound = <<>>

\* Local.__call__, line 424: self._rewrite_params(kwargs)
Rewrite ==
    /\ log = <<>>
    /\ kwargs' = _rewrite_params(kwargs, interface.map_params)
    /\ log' = <<Ev("rewrite", "")>>
    /\ UNCHANGED <<fixed, pc, loop_running, index, todo, errors, result, exception, body,
                   returned, exit, teardowns, transform_context, teardown_calls,
                   designated>>

RewriteNext == Rewrite

RewriteSpec == RewriteInit /\ [][RewriteNext]_vars

\* the interface-facing names and the internal names of the rename map
Facing == {interface.map_params[e][1] : e \in DOMAIN interface.map_params}

Internal == {interface.map_params[e][2] : e \in DOMAIN interface.map_params}

\* C37: after the rewrite every value supplied under an interface-facing name
\* is under its internal name and every value supplied under a name the map
\* does not rename is still there unchanged, also when an interface-facing
\* name of one entry is the internal name of another.
C37_RewriteLosesNothing ==
    HasEvent("rewrite") =>
        /\ \A e \in DOMAIN interface.map_params :
              interface.map_params[e][1] \in keywords =>
                  /\ interface.map_params[e][2] \in DOMAIN kwargs
                  /\ kwargs[interface.map_params[e][2]] = Under(interface.map_params[e][1])
        /\ \A name \in keywords \ Facing :
              /\ name \in DOMAIN kwargs
              /\ kwargs[name] = Under(name)

\* the same of the maps no name of which is on both sides, and of the
\* mappings that supply nothing under an internal name
C37_RewriteOfDisjointNames ==
    (HasEvent("rewrite") /\ Facing \cap Internal = {} /\ keywords \cap Internal = {}) =>
        /\ \A e \in DOMAIN interface.map_params :
              interface.map_params[e][1] \in keywords =>
                  /\ interface.map_params[e][2] \in DOMAIN kwargs
                  /\ kwargs[interface.map_params[e][2]] = Under(interface.map_params[e][1])
        /\ \A name \in keywords \ Facing :
              /\ name \in DOMAIN kwargs
              /\ kwargs[name] = Under(name)

\* the map swaps a and b and both were supplied: after the rewrite there is
\* only a, with the value supplied as a
C37_Witness ==
    /\ HasEvent("rewrite")
    /\ interface.map_params = << <<"a", "b">>, <<"b", "a">> >>
    /\ keywords = {"a", "b"}
    /\ DOMAIN kwargs = {"a"}
    /\ kwargs["a"] = Under("a")

\* x is renamed to a and y to b, both were supplied
C37_WitnessApart ==
    /\ HasEvent("rewrite")
    /\ interface.map_params = << <<"x", "a">>, <<"y", "b">> >>
    /\ keywords = {"x", "y"}
    /\ kwargs = [k \in {"a", "b"} |-> IF k = "a" THEN Under("x") ELSE Under("y")]

----------------------------------------------------------------------------
\* the Interface a route configuration makes of def f(a, b)
BoundFrom(route) == Local(AsRoute(route), Interfaces(BareFunction), {})

\* what is given as `validate` is a validation function, not a flag
Validator(given) == given \notin {True, <<"False">>}

\* C38: a validation function given to a local route configuration as its
\* `validate` option is the validate_function of the Interface bound from
\* the configuration, which calls with no per-parameter errors then invoke.
C38_ValidatorCarried ==
    \A k \in DOMAIN chain :
        (chain[k].method = "validate" /\ Validator(chain[k].given)) =>
            /\ "validate" \in DOMAIN Returned(k)
            /\ Returned(k)["validate"] = chain[k].given
            /\ BoundFrom(Returned(k)).validate_function

\* route.validate(v1) made a configuration that is the same as its receiver:
\* the Interface bound from it has no validation function
C38_Witness ==
    /\ Len(chain) = 1
    /\ chain[1].method = "validate"
    /\ chain[1].given = <<"v1">>
    /\ configs[2] = configs[1]
    /\ ~BoundFrom(configs[2]).validate_function
    /\ ~BoundFrom(configs[2]).skip_validation

----------------------------------------------------------------------------
\* Threads that bind routes to the same function at the same time.  Each
\* runs Interface.__init__, lines 163-166: the test for the cached descriptor,
\* the construction of one, its attachment, and the read of the one attached.
\* The function's `interface` attribute is <<descriptor, n>> here, for the
\* n-th descriptor constructed.

\* thread t is at `at`
Binding(t, at) == t \in DOMAIN threads /\ threads[t].pc = at

\* the routes the threads bind: a bare one and one that renames a
ConcurrentRoutes == {BareRoute, [BareRoute EXCEPT !.map_params = << <<"x", "a">> >>]}

\* a thread enters Local(route, function)
ThreadDecorate ==
    /\ Len(threads) < MaxThreads
    /\ \E route \in ConcurrentRoutes :
          threads' = Append(threads, [pc |-> "probe", route |-> route, made |-> 0,
                                      descriptor |-> 0])
    /\ UNCHANGED <<pipeline, routing, binding, probing>>

\* line 163: if not hasattr(function, "interface")
ThreadProbe(t) ==
    /\ Binding(t, "probe")
    /\ threads' = [threads EXCEPT
          ![t].pc = IF hasattr_interface(function) THEN "read" ELSE "construct"]
    /\ UNCHANGED <<pipeline, routing, binding, probing>>

\* line 164, the right-hand side: Interfaces(function, function_args)
ThreadConstruct(t) ==
    /\ Binding(t, "construct")
    /\ built' = built + 1
    /\ threads' = [threads EXCEPT ![t].pc = "attach", ![t].made = built + 1]
    /\ UNCHANGED <<pipeline, routing, function, bound, probing>>

\* line 164, the assignment: function.__dict__["interface"] = ...
ThreadAttach(t) ==
    /\ Binding(t, "attach")
    /\ function' = [function EXCEPT
          !.interface = <<Interfaces_args(function.spec, NoArgs), threads[t].made>>]
    /\ threads' = [threads EXCEPT ![t].pc = "read"]
    /\ UNCHANGED <<pipeline, routing, built, bound, probing>>

\* line 166 and the rest of __init__: self.interface = function.interface
ThreadRead(t) ==
    /\ Binding(t, "read")
    /\ LET d == Decorate(function, threads[t].route, NoArgs, {})
           nth == function.interface[2]
       IN  /\ function' = [function EXCEPT
                  !.interface = <<d.function.interface[1], nth>>]
           /\ bound' = Append(
                 [j \in DOMAIN bound |->
                     IF bound[j].descriptor = nth
                     THEN [bound[j] EXCEPT
                              !.local.defaults = d.local.defaults,
                              !.local.all_parameters = d.local.all_parameters]
                     ELSE bound[j]],
                 Bound(d, nth, threads[t].route, NoArgs, 0, {}))
           /\ threads' = [threads EXCEPT ![t].pc = "done", ![t].descriptor = nth]
    /\ UNCHANGED <<pipeline, routing, built, probing>>

ConcurrentBindNext ==
    \/ ThreadDecorate
    \/ \E t \in 1..MaxThreads :
          \/ ThreadProbe(t)
          \/ ThreadConstruct(t)
          \/ ThreadAttach(t)
          \/ ThreadRead(t)

ConcurrentBindSpec == BindInit /\ [][ConcurrentBindNext]_vars

\* C39: when threads bind routes to the same function at the same time, the
\* descriptor is constructed at most once and attached at most once, and all
\* the Interfaces made refer to the same descriptor, under every interleaving.
C39_DescriptorBuiltOnceConcurrently ==
    /\ built <= 1
    /\ \A i, j \in DOMAIN bound : bound[i].descriptor = bound[j].descriptor
    /\ \A t \in DOMAIN threads :
          threads[t].pc = "done" =>
              hasattr_interface(function) /\ threads[t].made \in {0, function.interface[2]}

\* both threads found no descriptor, both constructed one, and the two
\* Interfaces refer to different descriptors
C39_Witness ==
    /\ Len(threads) = 2
    /\ threads[1].pc = "done"
    /\ threads[2].pc = "done"
    /\ built = 2
    /\ Len(bound) = 2
    /\ bound[1].descriptor /= bound[2].descriptor

\* the second thread began after the first had attached its descriptor: one
\* descriptor, which both Interfaces refer to
C39_WitnessOneAfterTheOther ==
    /\ Len(threads) = 2
    /\ threads[1].pc = "done"
    /\ threads[2].pc = "done"
    /\ built = 1
    /\ Len(bound) = 2
    /\ bound[1].descriptor = bound[2].descriptor

====
